---- MODULE Spec2Model ----
(***************************************************************************)
(* Device locking, event broadcast and interactive TEF transaction layer   *)
(* of stoqserver/lib/restful.py, as a state machine.                       *)
(*                                                                         *)
(* Tasks are gevent greenlets: a step of the model runs from one           *)
(* suspension point (lock acquisition, Event.wait, Queue.get, gevent.sleep,*)
(* a blocking driver call) to the next.                                    *)
(***************************************************************************)
EXTENDS Integers, Sequences, FiniteSets, TLC

\* ------------------------------------------------------------------ bounds
MaxCallbacks == 2   \* callbacks one driver run may make
MaxReplies == 2     \* reply submissions (TefReplyResource.post requests)
MaxFaults == 2      \* transport faults the printer may produce
MaxSubs == 1        \* stream subscriptions (EventStream.get requests)
MaxPolls == 1       \* iterations of check_drawer_loop
MaxStreamSubs == 2  \* subscriptions, where re-subscription is studied
MaxUpdates == 1     \* put_all calls of the DataResource listener
MaxObservations == 3  \* iterations of check_drawer_loop, where its alerts are studied
MaxDevPolls == 2    \* iterations of check_sat_loop and of check_pinpad_loop
MaxRetries == 3     \* the retries argument of a direct ensure_printer call
MaxAborts == 1      \* abort requests (TefCancelCurrentOperation.post)
MaxTillChecks == 2  \* iterations of inform_till_status
TimesPerDay == 48   \* local times of day at which inform_till_status may start

\* ------------------------------------------------------- program constants
DefaultRetries == 20   \* ensure_printer(cls, station, retries=20)
DrawerRetries == 1     \* check_drawer: ensure_printer(..., retries=1)
DaySeconds == 86400   \* datetime.timedelta(days=1).total_seconds()
UpdateHour == 21600   \* hour=6, minute=0, in seconds since midnight
MinSleep == 60        \* max(60, wait_time)

\* ------------------------------------------------------------------- sets
Stations == {"S1", "S2"}
TefTasks == {"tef1", "tef2"}
ReqTasks == {"req"}
PollTasks == {"drawer"}
DevTasks == {"sat", "pinpad"}      \* check_sat_loop, check_pinpad_loop
DataTasks == {"data"}              \* the DataResource worker that calls put_all
EpTasks == {"ep"}                  \* a caller of ensure_printer(station, retries)
TillTasks == {"till"}              \* inform_till_status
Tasks == TefTasks \cup ReqTasks \cup PollTasks \cup DevTasks \cup DataTasks \cup EpTasks
         \cup TillTasks

\* the station each task's request token (or the process, for the poller)
\* resolves to
StationOf(t) == IF t = "tef2" THEN "S2" ELSE "S1"

Free == "free"

\* the devices with a status poller of their own, and the value the pollers
\* start from (sat_ok = -1, pinpad_ok = -1)
Devices == {"sat", "pinpad"}
Sentinel == "-1"

NoTillSignals == {"StartTefSaleSummaryEvent", "StartTefAdminEvent"}
SignalNames == NoTillSignals \cup {"StartTefSaleEvent"}
TillStates == {"none", "open", "closed"}

ReqKinds == {"DrawerResource.get", "DrawerResource.post", "TillResource.post",
             "SaleResource.post", "AdvancePaymentResource.post",
             "PrintCouponResource.get"}

\* Python values that reach the 'success' field, tagged with their type
PyFalse == [py |-> "bool", val |-> "False"]
PyTrue == [py |-> "bool", val |-> "True"]
PyDict(message) == [py |-> "dict", val |-> message]
PyDictNoMessage == [py |-> "dict_without_message", val |-> ""]

\* what a registered driver may return from operation_signal.send(...)[0][1]
DriverRetvals == {PyDict("Aprovado"), PyDictNoMessage, PyTrue}

\* exceptions a driver may raise: e.args of length 0..3
DriverArgs == {<<>>, <<"a0">>, <<"a0", "a1">>, <<"b0", "b1">>, <<"a0", "a1", "a2">>}

PrinterErrorMessage == "Erro comunicando com a impressora"
\* 'Falha na operação' in the source, written here without the accents
FallbackMessage == "Falha na operacao"

\* request bodies of /tef/reply: data['value'] is a JSON text
ReplyBodies == {"1", "\"a\"", "{"}
JsonValid(text) == text \in {"1", "\"a\""}
json_loads(text) ==
  CASE text = "1" -> [py |-> "int", val |-> "1"]
    [] text = "\"a\"" -> [py |-> "str", val |-> "a"]
    [] OTHER -> [py |-> "ValueError", val |-> text]

VARIABLES
  \* device locks
  printerLock,      \* _printer_lock: Free or the task inside `with _printer_lock`
  pinpadLock,       \* lock_pinpad
  satLock,          \* lock_sat
  \* EventStream
  hasStream,        \* EventStream.has_stream (gevent Event)
  streams,          \* EventStream._streams: station -> queue id, 0 = no entry
  queues,           \* the Queue objects ever created, by id
  \* TefResource class attributes
  waitingReply,     \* TefResource.waiting_reply (gevent Event)
  reply,            \* TefResource.reply (unbounded gevent Queue)
  \* collaborators
  till,             \* Till.get_last(store, station): "none" or its status
  printerConfigured,\* DeviceSettings.get_by_station_and_type(...) is not None
  devPrinter,       \* api.device_manager._printer: handle id, 0 = None
  nextHandle,       \* id of the next handle the device manager opens
  closedHandles,    \* handles whose port ensure_printer closed
  satUiPrinter,     \* sat.ui.printer
  nonfiscalUiPrinter,\* nonfiscal.ui.printer
  faults,           \* transport faults produced so far
  \* tasks
  pc,               \* where each task is
  sigName,          \* TefResource.post: signal_name
  cbCount,          \* callbacks the driver made in this operation
  fin,              \* TefResource.post: retval and message of the final event
  printArgs,        \* _print_callback: which of holder, merchant are given
  connected,        \* requests whose callbacks are connected to the Tef*Event signals
  epI, epOrig, epPrinter, epResult,   \* ensure_printer locals and outcome
  reqKind, reqOp,   \* the resource method a request task runs
  isOpen, polls,    \* check_drawer_loop: is_open, iterations done
  newIsOpen,        \* check_drawer_loop: new_is_open
  subs,             \* subscriptions made
  replies,          \* reply submissions made
  \* history
  pushed,           \* events each TEF operation passed to EventStream.put
  path,             \* the path each TefResource.post took
  drv,              \* what the driver did at the end of dispatch
  did,              \* what each task has done: taken the printer lock, called
                    \* ensure_printer, invoked the driver
  asked, taken,     \* questions published, replies taken by question callbacks
  lastTaken,        \* the reply the last question callback returned
  replyOutcome,     \* outcome of the last TefReplyResource.post
  unlockedUse,      \* some operation on the handle was made without the lock
  printLog,         \* print_line / cut_paper calls of the last _print_callback
  \* status pollers of the SAT device and the pinpad
  devOk,            \* check_sat_loop: sat_ok, check_pinpad_loop: pinpad_ok
  devNew,           \* new_sat_ok, new_pinpad_ok
  devPolls,         \* iterations the two loops have made
  updates,          \* DataResource: put_all calls made
  aborts,           \* TefAbortOperationEvent signals sent to the driver
  tillNow,          \* inform_till_status: now, in seconds since local midnight
  tillWait,         \* inform_till_status: the argument of its gevent.sleep
  tillChecks,       \* inform_till_status: iterations completed
  epRetries,        \* the retries argument of a direct ensure_printer call
  \* history
  enq,              \* every item ever put on each Queue, by id
  yielded,          \* the items each subscription's _loop has yielded, by id
  canceled,         \* EventStream.get: has_canceled of each subscription, by id
  observed,         \* the values check_drawer_loop compared, in order
  alerts,           \* the DRAWER_ALERT_* kinds check_drawer_loop emitted
  epProbes          \* outcomes of the probes of the running ensure_printer

lockVars == <<printerLock, pinpadLock, satLock>>
streamVars == <<hasStream, streams, queues, subs>>
replyVars == <<waitingReply, reply, replies, replyOutcome>>
printerVars == <<printerConfigured, devPrinter, nextHandle, closedHandles,
                 satUiPrinter, nonfiscalUiPrinter, faults, unlockedUse>>
epVars == <<epI, epOrig, epPrinter, epResult>>
tefVars == <<sigName, cbCount, fin, printArgs, connected>>
reqVars == <<reqKind, reqOp>>
pollVars == <<isOpen, polls, newIsOpen>>
histVars == <<pushed, path, drv, did, asked, taken, lastTaken, printLog>>
devVars == <<devOk, devNew, devPolls>>
clockVars == <<tillNow, tillWait, tillChecks>>
streamHist == <<enq, yielded, canceled>>
drawerHist == <<observed, alerts>>
epHist == <<epProbes, epRetries>>

vars == <<lockVars, streamVars, replyVars, till, printerVars, epVars, tefVars,
          reqVars, pollVars, histVars, pc, devVars, updates, streamHist,
          drawerHist, epHist, aborts, clockVars>>

\* ------------------------------------------------------------------ events
Handshake == [type |-> "json.dumps({})"]
EvWarning == [type |-> "TEF_WARNING_MESSAGE"]
EvClearSale == [type |-> "CLEAR_SALE"]
EvDisplay(can_abort) ==
  [type |-> "TEF_DISPLAY_MESSAGE", message |-> "msg", can_abort |-> can_abort]
EvQuestion == [type |-> "TEF_ASK_QUESTION", data |-> "question"]
EvFinished(success, message) ==
  [type |-> "TEF_OPERATION_FINISHED", success |-> success, message |-> message]
EvUpdateData == [type |-> "SERVER_UPDATE_DATA", data |-> "get_data"]
EvDrawer(kind) == [type |-> kind]
EvDeviceStatus(device, status) ==
  [type |-> "DEVICE_STATUS_CHANGED", device |-> device, status |-> status]
EvCheckTill(status) ==
  [type |-> "CHECK_TILL_FINISHED", lastTill |-> [status |-> status]]

\* ------------------------------------------------------------------- Init
Init ==
  /\ printerLock = Free /\ pinpadLock = Free /\ satLock = Free
  /\ hasStream = FALSE
  /\ streams = [s \in Stations |-> 0]
  /\ queues = <<>>
  /\ subs = 0
  /\ waitingReply = FALSE
  /\ reply = <<>>
  /\ replies = 0
  /\ replyOutcome = "none"
  /\ \E st \in TillStates : till = [s \in Stations |-> st]
  /\ printerConfigured \in BOOLEAN
  /\ devPrinter = 0
  /\ nextHandle = 1
  /\ closedHandles = {}
  /\ satUiPrinter = 0
  /\ nonfiscalUiPrinter = 0
  /\ faults = 0
  /\ unlockedUse = FALSE
  /\ pc = [t \in Tasks |-> "idle"]
  /\ sigName = [t \in Tasks |-> "none"]
  /\ cbCount = [t \in Tasks |-> 0]
  /\ fin = [t \in Tasks |-> [success |-> PyFalse, message |-> ""]]
  /\ printArgs = [t \in Tasks |-> [holder |-> FALSE, merchant |-> FALSE]]
  /\ connected = {}
  /\ epI = [t \in Tasks |-> 0]
  /\ epOrig = [t \in Tasks |-> "none"]
  /\ epPrinter = [t \in Tasks |-> 0]
  /\ epResult = [t \in Tasks |-> "none"]
  /\ reqKind = [t \in Tasks |-> "none"]
  /\ reqOp = [t \in Tasks |-> "none"]
  /\ isOpen = "unknown"
  /\ newIsOpen = "unknown"
  /\ polls = 0
  /\ pushed = [t \in Tasks |-> <<>>]
  /\ path = [t \in Tasks |-> "none"]
  /\ drv = [t \in Tasks |-> [kind |-> "none", retval |-> PyFalse, args |-> <<>>]]
  /\ did = [t \in Tasks |-> {}]
  /\ asked = 0
  /\ taken = 0
  /\ lastTaken = [value |-> json_loads("{"), round |-> 0, question |-> 0]
  /\ printLog = <<>>
  /\ devOk = [d \in Devices |-> Sentinel]
  /\ devPolls = [d \in Devices |-> 0]
  /\ devNew = [d \in Devices |-> "unset"]
  /\ updates = 0
  /\ aborts = 0
  /\ tillNow = "unset"
  /\ tillWait = "unset"
  /\ tillChecks = 0
  /\ epRetries = 0
  /\ enq = <<>>
  /\ yielded = <<>>
  /\ canceled = <<>>
  /\ observed = <<>>
  /\ alerts = <<>>
  /\ epProbes = [t \in Tasks |-> <<>>]

\* mutant: the wrapped code runs without the printer lock being taken
lock_printer_acquire_skipped(t) ==
  /\ printerLock' = printerLock
  /\ did' = did

\* mutant: a printer lock that admits a task while another holds it
lock_printer_acquire_unguarded(t) ==
  /\ printerLock' = t
  /\ did' = [did EXCEPT ![t] = @ \cup {"printer_lock"}]

\* ------------------------------------------------------------ device locks
\* `with _printer_lock:` entry (Semaphore.acquire): waits while the lock is held
lock_printer_acquire(t) ==
  /\ printerLock = Free
  /\ printerLock' = t
  /\ did' = [did EXCEPT ![t] = @ \cup {"printer_lock"}]

\* mutant: the printer lock is kept when the locked block ends
lock_printer_release_never(t) == printerLock' = printerLock

\* mutant: the lock is released on return but not when the block raises
lock_printer_release_on_return(t) ==
  printerLock' = IF epResult[t] \in {"None", "True", "False", "none"} THEN Free ELSE printerLock

\* `with _printer_lock:` exit (Semaphore.release), on return and on raise
lock_printer_release(t) == printerLock' = Free

\* lock_pinpad(block=True): waits while the lock is held
lock_pinpad_block(t) ==
  /\ pinpadLock = Free
  /\ pinpadLock' = t

lock_pinpad_release(t) == pinpadLock' = Free

\* lock_sat(block=True)
lock_sat_block(t) ==
  /\ satLock = Free
  /\ satLock' = t

lock_sat_release(t) == satLock' = Free

\* ------------------------------------------------------------ EventStream
\* mutant: put and put_all do not wait for the readiness flag
has_stream_nowait == TRUE

\* cls.has_stream.wait(): the caller proceeds only once the flag is set
has_stream_wait == hasStream

\* mutant: put hands data to every registered queue, whatever the station
put_broadcast(qs, st, station, data) ==
  [i \in DOMAIN qs |->
     IF \E x \in Stations : st[x] = i THEN Append(qs[i], data) ELSE qs[i]]

\* EventStream.put after the wait: stream = cls._streams.get(station.id);
\* if stream: stream.put(data)
put(qs, st, station, data) ==
  IF st[station] # 0
    THEN [qs EXCEPT ![st[station]] = Append(@, data)]
    ELSE qs

\* mutant: every queue ever created gets data, registered or not
put_all_every(qs, st, data) == [i \in DOMAIN qs |-> Append(qs[i], data)]

\* mutant: data is put at the head of every registered queue
put_all_first(qs, st, data) ==
  [i \in DOMAIN qs |->
     IF \E s \in Stations : st[s] = i THEN <<data>> \o qs[i] ELSE qs[i]]

\* EventStream.put_all after the wait: every registered queue gets data
put_all(qs, st, data) ==
  [i \in DOMAIN qs |->
     IF \E s \in Stations : st[s] = i THEN Append(qs[i], data) ELSE qs[i]]

\* has_canceled = TefCheckPendingEvent.send(): whether the collaborator
\* reports a pending transaction (has_canceled and has_canceled[0][1]); it
\* answers without suspending the subscribing task
TefCheckPendingEvent_send == BOOLEAN

\* mutant: a station that already has a registered queue keeps it
EventStream_get_setdefault(station, pending) ==
  /\ subs' = subs + 1
  /\ LET qid == Len(queues) + 1
         st == IF streams[station] # 0 THEN streams
                                       ELSE [streams EXCEPT ![station] = qid]
         q0 == Append(queues, <<Handshake>>)
         e0 == Append(enq, <<Handshake>>)
     IN /\ streams' = st
        /\ hasStream' = TRUE
        /\ queues' = IF pending
                       THEN put(put(q0, st, station, EvWarning), st, station, EvClearSale)
                       ELSE q0
        /\ enq' = IF pending
                    THEN put(put(e0, st, station, EvWarning), st, station, EvClearSale)
                    ELSE e0
        /\ yielded' = Append(yielded, <<>>)
        /\ canceled' = Append(canceled, pending)
  /\ UNCHANGED <<lockVars, replyVars, till, printerVars, epVars, tefVars,
                 reqVars, pollVars, histVars, pc>>
  /\ UNCHANGED <<clockVars, aborts, devVars, updates, drawerHist, epHist>>

\* mutant: with a pending transaction CLEAR_SALE is put before the warning
EventStream_get_swapped(station, pending) ==
  /\ subs' = subs + 1
  /\ LET qid == Len(queues) + 1
         st == [streams EXCEPT ![station] = qid]
         q0 == Append(queues, <<Handshake>>)
         e0 == Append(enq, <<Handshake>>)
     IN /\ streams' = st
        /\ hasStream' = TRUE
        /\ queues' = IF pending
                       THEN put(put(q0, st, station, EvClearSale), st, station, EvWarning)
                       ELSE q0
        /\ enq' = IF pending
                    THEN put(put(e0, st, station, EvClearSale), st, station, EvWarning)
                    ELSE e0
        /\ yielded' = Append(yielded, <<>>)
        /\ canceled' = Append(canceled, pending)
  /\ UNCHANGED <<lockVars, replyVars, till, printerVars, epVars, tefVars,
                 reqVars, pollVars, histVars, pc>>
  /\ UNCHANGED <<clockVars, aborts, devVars, updates, drawerHist, epHist>>

\* EventStream.get: a station subscribes (the whole handler up to the
\* Response; nothing in it suspends once has_stream is set)
EventStream_get(station, pending) ==
  /\ subs' = subs + 1
  /\ LET qid == Len(queues) + 1
         st == [streams EXCEPT ![station] = qid]
         q0 == Append(queues, <<Handshake>>)
         e0 == Append(enq, <<Handshake>>)
     IN /\ streams' = st
        /\ hasStream' = TRUE
        /\ queues' = IF pending
                       THEN put(put(q0, st, station, EvWarning), st, station, EvClearSale)
                       ELSE q0
        /\ enq' = IF pending
                    THEN put(put(e0, st, station, EvWarning), st, station, EvClearSale)
                    ELSE e0
        /\ yielded' = Append(yielded, <<>>)
        /\ canceled' = Append(canceled, pending)
  /\ UNCHANGED <<lockVars, replyVars, till, printerVars, epVars, tefVars,
                 reqVars, pollVars, histVars, pc>>
  /\ UNCHANGED <<clockVars, aborts, devVars, updates, drawerHist, epHist>>

\* _loop wraps each item it takes: "data: " + json.dumps(data) + "\n\n"
json_dumps(data) == [json |-> data]
Frame(data) == <<"data: ", json_dumps(data), "\n\n">>
FrameData(frame) == frame[2].json

\* mutant: the newest item of the queue is taken first
EventStream_loop_lifo(qid) ==
  /\ qid \in DOMAIN queues
  /\ queues[qid] # <<>>
  /\ queues' = [queues EXCEPT ![qid] = SubSeq(@, 1, Len(@) - 1)]
  /\ yielded' = [yielded EXCEPT ![qid] = Append(@, Frame(queues[qid][Len(queues[qid])]))]
  /\ UNCHANGED <<hasStream, streams, subs, lockVars, replyVars, till, printerVars,
                 epVars, tefVars, reqVars, pollVars, histVars, pc>>
  /\ UNCHANGED <<clockVars, aborts, devVars, updates, enq, canceled, drawerHist, epHist>>

\* EventStream._loop: data = stream.get(); yield the frame
EventStream_loop(qid) ==
  /\ qid \in DOMAIN queues
  /\ queues[qid] # <<>>
  /\ queues' = [queues EXCEPT ![qid] = Tail(@)]
  /\ yielded' = [yielded EXCEPT ![qid] = Append(@, Frame(Head(queues[qid])))]
  /\ UNCHANGED <<hasStream, streams, subs, lockVars, replyVars, till, printerVars,
                 epVars, tefVars, reqVars, pollVars, histVars, pc>>
  /\ UNCHANGED <<clockVars, aborts, devVars, updates, enq, canceled, drawerHist, epHist>>

\* _postgres_listen: a notification for a watched table has set message
DataResource_postgres_listen(t) ==
  /\ pc[t] = "idle"
  /\ pc' = [pc EXCEPT ![t] = "put_all"]
  /\ UNCHANGED <<lockVars, streamVars, replyVars, till, printerVars, epVars,
                 tefVars, reqVars, pollVars, histVars>>
  /\ UNCHANGED <<clockVars, aborts, devVars, updates, streamHist, drawerHist, epHist>>

\* EventStream.put_all({'type': 'SERVER_UPDATE_DATA', ...}) gets past the wait
DataResource_put_all(t) ==
  /\ pc[t] = "put_all"
  /\ has_stream_wait
  /\ queues' = put_all(queues, streams, EvUpdateData)
  /\ enq' = put_all(enq, streams, EvUpdateData)
  /\ pushed' = [pushed EXCEPT ![t] = Append(@, [ev |-> EvUpdateData, station |-> "ALL"])]
  /\ updates' = updates + 1
  /\ pc' = [pc EXCEPT ![t] = "idle"]
  /\ UNCHANGED <<lockVars, hasStream, streams, subs, replyVars, till, printerVars,
                 epVars, tefVars, reqVars, pollVars, path, drv, did, asked, taken,
                 lastTaken, printLog>>
  /\ UNCHANGED <<clockVars, aborts, devVars, yielded, canceled, drawerHist, epHist>>

\* mutant: the reply endpoint without its assertion
TefReplyResource_post_noassert(body) ==
  /\ replies < MaxReplies
  /\ replies' = replies + 1
  /\ IF ~JsonValid(body)
       THEN /\ replyOutcome' = "ValueError"
            /\ UNCHANGED reply
       ELSE /\ replyOutcome' = "ok"
            /\ reply' = Append(reply, [value |-> json_loads(body), round |-> asked])
  /\ UNCHANGED <<waitingReply, lockVars, streamVars, till, printerVars, epVars,
                 tefVars, reqVars, pollVars, histVars, pc>>
  /\ UNCHANGED <<clockVars, aborts, devVars, updates, streamHist, drawerHist, epHist>>

\* --------------------------------------------------------- TefReplyResource
\* TefReplyResource.post: assert waiting_reply.is_set(); reply.put(json.loads(value))
TefReplyResource_post(body) ==
  /\ replies < MaxReplies
  /\ replies' = replies + 1
  /\ IF ~waitingReply
       THEN /\ replyOutcome' = "AssertionError"
            /\ UNCHANGED reply
       ELSE IF ~JsonValid(body)
         THEN /\ replyOutcome' = "ValueError"
              /\ UNCHANGED reply
         ELSE /\ replyOutcome' = "ok"
              /\ reply' = Append(reply, [value |-> json_loads(body), round |-> asked])
  /\ UNCHANGED <<waitingReply, lockVars, streamVars, till, printerVars, epVars,
                 tefVars, reqVars, pollVars, histVars, pc>>
  /\ UNCHANGED <<clockVars, aborts, devVars, updates, streamHist, drawerHist, epHist>>

\* ---------------------------------------------------------- printer handle
\* any read, close, reopen or print on the handle by task t
use_printer(t) == unlockedUse' = (unlockedUse \/ printerLock # t)

\* api.device_manager.printer: the cached handle, or a newly opened one
PrinterHandle == IF devPrinter # 0 THEN devPrinter ELSE nextHandle
HandleAfter == IF devPrinter # 0 THEN nextHandle ELSE nextHandle + 1

Faulty == faults < MaxFaults
OkResults == {"True", "False"}
FaultResults == {"SerialException", "InvalidReplyException"}
\* printer.is_drawer_open() answers, or raises a transport fault
ProbeResults == OkResults \cup (IF Faulty THEN FaultResults ELSE {})
\* api.device_manager.printer raises when the port cannot be opened
AccessResults ==
  ProbeResults \cup (IF Faulty /\ devPrinter = 0 THEN {"OpenFailed"} ELSE {})

Retries(t) ==
  IF t \in PollTasks \cup DataTasks THEN DrawerRetries
  ELSE IF t \in EpTasks THEN epRetries
  ELSE DefaultRetries

\* ------------------------------------------------------------ ensure_printer
\* history of a direct call: the outcomes of its probes, in order
probed(t, outcomes) ==
  epProbes' = [epProbes EXCEPT ![t] = IF t \in EpTasks THEN @ \o outcomes ELSE @]

\* the record of an exception leaving ensure_printer
Raised(where, result) ==
  IF where = "ep_done" /\ result \notin {"None", "True", "False"}
    THEN {"ensure_raised"} ELSE {}

\* mutant: a printer device is found for every station
get_by_station_and_type_any == TRUE

\* device = DeviceSettings.get_by_station_and_type(store, station,
\* DeviceSettings.NON_FISCAL_PRINTER_DEVICE): whether there is one
get_by_station_and_type == printerConfigured

\* entry of ensure_printer up to the first suspension: the assertion, the
\* configuration lookup, the first probe and, on a fault, the close
ensure_printer_probe(t) ==
  /\ pc[t] = "ensure"
  /\ IF printerLock = Free
       THEN /\ epResult' = [epResult EXCEPT ![t] = "AssertionError"]
            /\ pc' = [pc EXCEPT ![t] = "ep_done"]
            /\ UNCHANGED <<printerVars, epI, epOrig, epPrinter, epProbes>>
       ELSE IF ~get_by_station_and_type
         THEN /\ epResult' = [epResult EXCEPT ![t] = "None"]
              /\ pc' = [pc EXCEPT ![t] = "ep_done"]
              /\ UNCHANGED <<printerVars, epI, epOrig, epPrinter, epProbes>>
         ELSE \E r \in AccessResults :
              /\ use_printer(t)
              /\ probed(t, <<r>>)
              /\ UNCHANGED <<printerConfigured, satUiPrinter, nonfiscalUiPrinter>>
              /\ IF r \in OkResults
                   THEN /\ devPrinter' = PrinterHandle
                        /\ nextHandle' = HandleAfter
                        /\ epResult' = [epResult EXCEPT ![t] = r]
                        /\ pc' = [pc EXCEPT ![t] = "ep_done"]
                        /\ UNCHANGED <<closedHandles, faults, epI, epOrig, epPrinter>>
                   ELSE /\ faults' = faults + 1
                        /\ devPrinter' = 0
                        /\ epI' = [epI EXCEPT ![t] = 0]
                        /\ pc' = [pc EXCEPT ![t] = "ep_retry"]
                        /\ UNCHANGED epResult
                        /\ IF r = "OpenFailed"
                             THEN /\ epOrig' = [epOrig EXCEPT ![t] = "SerialException"]
                                  /\ epPrinter' = [epPrinter EXCEPT ![t] = 0]
                                  /\ UNCHANGED <<closedHandles, nextHandle>>
                             ELSE /\ epOrig' = [epOrig EXCEPT ![t] = r]
                                  /\ epPrinter' = [epPrinter EXCEPT ![t] = PrinterHandle]
                                  /\ closedHandles' = closedHandles \cup {PrinterHandle}
                                  /\ nextHandle' = HandleAfter
  /\ UNCHANGED <<lockVars, streamVars, replyVars, till, tefVars, reqVars,
                 pollVars, pushed, path, drv, asked, taken, lastTaken, printLog>>
  /\ did' = [did EXCEPT ![t] = @ \cup {"ensure_printer"} \cup Raised(pc'[t], epResult'[t])]
  /\ UNCHANGED <<clockVars, aborts, devVars, updates, streamHist, drawerHist, epRetries>>

\* mutant: a recovery that leaves the plugin caches as they were
invalidate_plugins_skipped(printer) ==
  UNCHANGED <<satUiPrinter, nonfiscalUiPrinter>>

\* after the loop: sat.ui.printer = None; nonfiscal.ui.printer = printer
invalidate_plugins(printer) ==
  /\ satUiPrinter' = 0
  /\ nonfiscalUiPrinter' = printer

\* one pass of `for i in range(retries)`, or its else clause (bare raise);
\* a successful probe breaks out, resets the plugin caches and probes again
ensure_printer_retry(t) ==
  /\ pc[t] = "ep_retry"
  /\ IF epI[t] < Retries(t)
       THEN \E r \in AccessResults, r2 \in ProbeResults :
            /\ use_printer(t)
            /\ probed(t, IF r \in OkResults THEN <<r, r2>> ELSE <<r>>)
            /\ UNCHANGED <<printerConfigured, closedHandles, epI, epOrig>>
            /\ IF r = "OpenFailed"
                 THEN /\ r2 = "True"
                      /\ faults' = faults + 1
                      /\ pc' = [pc EXCEPT ![t] = "ep_sleep"]
                      /\ UNCHANGED <<devPrinter, nextHandle, satUiPrinter,
                                     nonfiscalUiPrinter, epPrinter, epResult>>
                 ELSE /\ devPrinter' = PrinterHandle
                      /\ nextHandle' = HandleAfter
                      /\ epPrinter' = [epPrinter EXCEPT ![t] = PrinterHandle]
                      /\ IF r = "SerialException"
                           THEN /\ r2 = "True"
                                /\ faults' = faults + 1
                                /\ pc' = [pc EXCEPT ![t] = "ep_sleep"]
                                /\ UNCHANGED <<satUiPrinter, nonfiscalUiPrinter, epResult>>
                           ELSE IF r = "InvalidReplyException"
                             THEN /\ r2 = "True"
                                  /\ faults' = faults + 1
                                  /\ epResult' = [epResult EXCEPT ![t] = r]
                                  /\ pc' = [pc EXCEPT ![t] = "ep_done"]
                                  /\ UNCHANGED <<satUiPrinter, nonfiscalUiPrinter>>
                             ELSE /\ invalidate_plugins(PrinterHandle)
                                  /\ faults' = IF r2 \in FaultResults
                                                 THEN faults + 1 ELSE faults
                                  /\ epResult' = [epResult EXCEPT ![t] = r2]
                                  /\ pc' = [pc EXCEPT ![t] = "ep_done"]
       ELSE /\ epResult' = [epResult EXCEPT ![t] = epOrig[t]]
            /\ pc' = [pc EXCEPT ![t] = "ep_done"]
            /\ UNCHANGED <<printerVars, epI, epOrig, epPrinter, epProbes>>
  /\ UNCHANGED <<lockVars, streamVars, replyVars, till, tefVars, reqVars,
                 pollVars, pushed, path, drv, asked, taken, lastTaken, printLog>>
  /\ did' = [did EXCEPT ![t] = @ \cup Raised(pc'[t], epResult'[t])]
  /\ UNCHANGED <<clockVars, aborts, devVars, updates, streamHist, drawerHist, epRetries>>

\* gevent.sleep(1) returns: next value of i
ensure_printer_sleep(t) ==
  /\ pc[t] = "ep_sleep"
  /\ epI' = [epI EXCEPT ![t] = @ + 1]
  /\ pc' = [pc EXCEPT ![t] = "ep_retry"]
  /\ UNCHANGED <<lockVars, streamVars, replyVars, till, printerVars, epOrig,
                 epPrinter, epResult, tefVars, reqVars, pollVars, histVars>>
  /\ UNCHANGED <<clockVars, aborts, devVars, updates, streamHist, drawerHist, epHist>>

\* the locals of ensure_printer are gone once its caller has the outcome
ep_reset(t) ==
  /\ epI' = [epI EXCEPT ![t] = 0]
  /\ epOrig' = [epOrig EXCEPT ![t] = "none"]
  /\ epPrinter' = [epPrinter EXCEPT ![t] = 0]
  /\ epResult' = [epResult EXCEPT ![t] = "none"]
  /\ epProbes' = [epProbes EXCEPT ![t] = <<>>]

EnsureRaised(t) == epResult[t] \notin {"None", "True", "False"}

\* ensure_printer(station, retries) is called by a task that holds the
\* printer lock, as its assertion requires
ensure_printer_call(t, retries) ==
  /\ t \in EpTasks
  /\ pc[t] = "idle"
  /\ lock_printer_acquire(t)
  /\ epRetries' = retries
  /\ pc' = [pc EXCEPT ![t] = "ensure"]
  /\ UNCHANGED <<pinpadLock, satLock, streamVars, replyVars, till, printerVars,
                 epVars, tefVars, reqVars, pollVars, pushed, path, drv, asked, taken,
                 lastTaken, printLog>>
  /\ UNCHANGED <<clockVars, aborts, devVars, updates, streamHist, drawerHist, epProbes>>

\* the caller has the value, or the exception, and lets go of the lock
ensure_printer_returned(t) ==
  /\ t \in EpTasks
  /\ pc[t] = "ep_done"
  /\ lock_printer_release(t)
  /\ ep_reset(t)
  /\ pc' = [pc EXCEPT ![t] = "done"]
  /\ UNCHANGED <<pinpadLock, satLock, streamVars, replyVars, till, printerVars,
                 tefVars, reqVars, pollVars, histVars>>
  /\ UNCHANGED <<clockVars, aborts, devVars, updates, streamHist, drawerHist, epRetries>>

\* the caller of ensure_printer goes on to its next call
ensure_printer_next(t) ==
  /\ t \in EpTasks
  /\ pc[t] = "done"
  /\ pc' = [pc EXCEPT ![t] = "idle"]
  /\ UNCHANGED <<lockVars, streamVars, replyVars, till, printerVars, epVars,
                 tefVars, reqVars, pollVars, histVars>>
  /\ UNCHANGED <<clockVars, aborts, devVars, updates, streamHist, drawerHist, epHist>>

\* --------------------------------------------------------------- TefResource
\* EventStream.put(station, ev) made by TEF operation t
TefPush(t, ev) ==
  /\ has_stream_wait
  /\ queues' = put(queues, streams, StationOf(t), ev)
  /\ enq' = put(enq, streams, StationOf(t), ev)
  /\ pushed' = [pushed EXCEPT ![t] = Append(@, [ev |-> ev, station |-> StationOf(t)])]

\* mutant: the till is examined for every operation name
NeedsTill_always(name) == name \in SignalNames

\* if signal_name not in ['StartTefSaleSummaryEvent', 'StartTefAdminEvent']
NeedsTill(name) == name \notin NoTillSignals

\* mutant: the second argument is used whenever there is one
exception_message_atleast(args) == IF Len(args) >= 2 THEN args[2] ELSE FallbackMessage

\* the except clause of post: e.args[1] when len(e.args) == 2
exception_message(args) == IF Len(args) = 2 THEN args[2] ELSE FallbackMessage

\* post returns or raises: lock_pinpad is released, the locals are gone
\* (signal_name is kept as the record of the request)
post_return(t) ==
  /\ lock_pinpad_release(t)
  /\ pc' = [pc EXCEPT ![t] = "done"]
  /\ cbCount' = [cbCount EXCEPT ![t] = 0]
  /\ fin' = [fin EXCEPT ![t] = [success |-> PyFalse, message |-> ""]]

\* a POST /tef/<signal_name> request arrives
TefResource_post(t, name) ==
  /\ pc[t] = "idle"
  /\ sigName' = [sigName EXCEPT ![t] = name]
  /\ pc' = [pc EXCEPT ![t] = "lock_pinpad"]
  /\ UNCHANGED <<lockVars, streamVars, replyVars, till, printerVars, epVars,
                 cbCount, fin, printArgs, connected, reqVars, pollVars, histVars>>
  /\ UNCHANGED <<clockVars, aborts, devVars, updates, streamHist, drawerHist, epHist>>

\* @lock_pinpad(block=True)
TefResource_post_lock_pinpad(t) ==
  /\ pc[t] = "lock_pinpad"
  /\ lock_pinpad_block(t)
  /\ pc' = [pc EXCEPT ![t] = "till_check"]
  /\ UNCHANGED <<printerLock, satLock, streamVars, replyVars, till, printerVars,
                 epVars, tefVars, reqVars, pollVars, histVars>>
  /\ UNCHANGED <<clockVars, aborts, devVars, updates, streamHist, drawerHist, epHist>>

\* the till precondition: raise TillError, or go on to the printer check
TefResource_post_till(t) ==
  /\ pc[t] = "till_check"
  /\ IF NeedsTill(sigName[t]) /\ till[StationOf(t)] # "open"
       THEN /\ path' = [path EXCEPT ![t] = "TillError"]
            /\ post_return(t)
       ELSE /\ pc' = [pc EXCEPT ![t] = "lock_printer"]
            /\ UNCHANGED <<path, pinpadLock, cbCount, fin>>
  /\ UNCHANGED <<printerLock, satLock, streamVars, replyVars, till, printerVars,
                 epVars, sigName, printArgs, connected, reqVars, pollVars, pushed, drv, did,
                 asked, taken, lastTaken, printLog>>
  /\ UNCHANGED <<clockVars, aborts, devVars, updates, streamHist, drawerHist, epHist>>

\* try: with _printer_lock: self.ensure_printer(station)
TefResource_post_lock_printer(t) ==
  /\ pc[t] = "lock_printer"
  /\ lock_printer_acquire(t)
  /\ pc' = [pc EXCEPT ![t] = "ensure"]
  /\ UNCHANGED <<pinpadLock, satLock, streamVars, replyVars, till, printerVars,
                 epVars, tefVars, reqVars, pollVars, pushed, path, drv, asked, taken,
                 lastTaken, printLog>>
  /\ UNCHANGED <<clockVars, aborts, devVars, updates, streamHist, drawerHist, epHist>>

\* mutant: post goes on to the driver whatever ensure_printer did
TefResource_post_checked_ignoring(t) ==
  /\ pc[t] = "ep_done"
  /\ lock_printer_release(t)
  /\ connected' = connected \cup {t}
  /\ pc' = [pc EXCEPT ![t] = "dispatch"]
  /\ did' = [did EXCEPT ![t] = @ \cup {"driver"}]
  /\ ep_reset(t)
  /\ UNCHANGED <<path, pinpadLock, cbCount, fin, satLock, streamVars, replyVars,
                 till, printerVars, sigName, printArgs, reqVars, pollVars, pushed,
                 drv, asked, taken, lastTaken, printLog>>
  /\ UNCHANGED <<clockVars, aborts, devVars, updates, streamHist, drawerHist, epRetries>>

\* ensure_printer is over: the lock is released; on an exception go to the
\* except clause, else connect the callbacks, check the receivers, read the body
TefResource_post_checked(t) ==
  /\ pc[t] = "ep_done"
  /\ lock_printer_release(t)
  /\ IF EnsureRaised(t)
       THEN /\ path' = [path EXCEPT ![t] = "printer_fail"]
            /\ pc' = [pc EXCEPT ![t] = "put_fail"]
            /\ UNCHANGED <<connected, pinpadLock, cbCount, fin, did>>
       ELSE \E receivers \in 0..2, hasBody \in BOOLEAN :
            /\ connected' = connected \cup {t}
            /\ IF receivers # 1
                 THEN /\ hasBody
                      /\ path' = [path EXCEPT ![t] = "AssertionError"]
                      /\ post_return(t)
                      /\ UNCHANGED did
                 ELSE IF ~hasBody
                   THEN /\ path' = [path EXCEPT ![t] = "AttributeError"]
                        /\ post_return(t)
                        /\ UNCHANGED did
                   ELSE /\ pc' = [pc EXCEPT ![t] = "dispatch"]
                        /\ did' = [did EXCEPT ![t] = @ \cup {"driver"}]
                        /\ UNCHANGED <<path, pinpadLock, cbCount, fin>>
  /\ ep_reset(t)
  /\ UNCHANGED <<satLock, streamVars, replyVars, till, printerVars,
                 sigName, printArgs, reqVars, pollVars, pushed, drv,
                 asked, taken, lastTaken, printLog>>
  /\ UNCHANGED <<clockVars, aborts, devVars, updates, streamHist, drawerHist, epRetries>>

\* mutant: the printer-failure path returns without its event
TefResource_post_put_fail_silent(t) ==
  /\ pc[t] = "put_fail"
  /\ post_return(t)
  /\ UNCHANGED <<printerLock, satLock, streamVars, replyVars, till,
                 printerVars, epVars, sigName, printArgs, connected, reqVars, pollVars,
                 pushed, path, drv, did, asked, taken, lastTaken, printLog>>
  /\ UNCHANGED <<clockVars, aborts, devVars, updates, streamHist, drawerHist, epHist>>

\* except Exception: EventStream.put(TEF_OPERATION_FINISHED, False, ...); return
TefResource_post_put_fail(t) ==
  /\ pc[t] = "put_fail"
  /\ TefPush(t, EvFinished(PyFalse, PrinterErrorMessage))
  /\ post_return(t)
  /\ UNCHANGED <<printerLock, satLock, hasStream, streams, subs, replyVars, till,
                 printerVars, epVars, sigName, printArgs, connected, reqVars, pollVars,
                 path, drv, did, asked, taken, lastTaken, printLog>>
  /\ UNCHANGED <<clockVars, aborts, devVars, updates, yielded, canceled, drawerHist, epHist>>

\* the driver calls _message_callback: put, then gevent.sleep(0.001)
TefResource_message_callback(t, can_abort) ==
  /\ pc[t] = "dispatch"
  /\ cbCount[t] < MaxCallbacks
  /\ cbCount' = [cbCount EXCEPT ![t] = @ + 1]
  /\ TefPush(t, EvDisplay(can_abort))
  /\ pc' = [pc EXCEPT ![t] = "msg_sleep"]
  /\ UNCHANGED <<lockVars, hasStream, streams, subs, replyVars, till, printerVars,
                 epVars, sigName, fin, printArgs, connected, reqVars, pollVars,
                 path, drv, did, asked, taken, lastTaken, printLog>>
  /\ UNCHANGED <<clockVars, aborts, devVars, updates, yielded, canceled, drawerHist, epHist>>

\* gevent.sleep(0.001) returns and so does the callback
TefResource_message_callback_return(t) ==
  /\ pc[t] = "msg_sleep"
  /\ pc' = [pc EXCEPT ![t] = "dispatch"]
  /\ UNCHANGED <<lockVars, streamVars, replyVars, till, printerVars, epVars,
                 tefVars, reqVars, pollVars, histVars>>
  /\ UNCHANGED <<clockVars, aborts, devVars, updates, streamHist, drawerHist, epHist>>

\* mutant: a question callback that does not wait for its reply
TefResource_question_callback_nowait(t) ==
  /\ pc[t] = "dispatch"
  /\ cbCount[t] < MaxCallbacks
  /\ cbCount' = [cbCount EXCEPT ![t] = @ + 1]
  /\ TefPush(t, EvQuestion)
  /\ waitingReply' = TRUE
  /\ asked' = asked + 1
  /\ UNCHANGED <<lockVars, hasStream, streams, subs, reply, replies, replyOutcome,
                 till, printerVars, epVars, sigName, fin, printArgs, connected,
                 reqVars, pollVars, path, drv, did, taken, lastTaken, printLog, pc>>
  /\ UNCHANGED <<clockVars, aborts, devVars, updates, yielded, canceled, drawerHist, epHist>>

\* the driver calls _question_callback: put, waiting_reply.set(), then the
\* task blocks in reply.get()
TefResource_question_callback(t) ==
  /\ pc[t] = "dispatch"
  /\ cbCount[t] < MaxCallbacks
  /\ cbCount' = [cbCount EXCEPT ![t] = @ + 1]
  /\ TefPush(t, EvQuestion)
  /\ asked' = asked + 1
  /\ IF reply = <<>>
       THEN \* waiting_reply.set(); reply.get() suspends on the empty Queue
            /\ waitingReply' = TRUE
            /\ pc' = [pc EXCEPT ![t] = "wait_reply"]
            /\ UNCHANGED <<reply, taken, lastTaken>>
       ELSE \* reply.get() returns a queued value without suspending:
            \* set(), get(), clear() and the return are one step
            /\ waitingReply' = FALSE
            /\ lastTaken' = [value |-> Head(reply).value, round |-> Head(reply).round,
                             question |-> asked']
            /\ reply' = Tail(reply)
            /\ taken' = taken + 1
            /\ UNCHANGED pc
  /\ UNCHANGED <<lockVars, hasStream, streams, subs, replies, replyOutcome,
                 till, printerVars, epVars, sigName, fin, printArgs, connected,
                 reqVars, pollVars, path, drv, did, printLog>>
  /\ UNCHANGED <<clockVars, aborts, devVars, updates, yielded, canceled, drawerHist, epHist>>

\* mutant: the reply is returned to the driver with the flag left set
TefResource_question_callback_return_noclear(t) ==
  /\ pc[t] = "wait_reply"
  /\ reply # <<>>
  /\ lastTaken' = [value |-> Head(reply).value, round |-> Head(reply).round,
                   question |-> asked]
  /\ reply' = Tail(reply)
  /\ taken' = taken + 1
  /\ waitingReply' = waitingReply
  /\ pc' = [pc EXCEPT ![t] = "dispatch"]
  /\ UNCHANGED <<lockVars, streamVars, replies, replyOutcome, till, printerVars,
                 epVars, tefVars, reqVars, pollVars, pushed, path, drv, did, asked,
                 printLog>>
  /\ UNCHANGED <<clockVars, aborts, devVars, updates, streamHist, drawerHist, epHist>>

\* reply.get() returns: waiting_reply.clear(); return reply
TefResource_question_callback_return(t) ==
  /\ pc[t] = "wait_reply"
  /\ reply # <<>>
  /\ lastTaken' = [value |-> Head(reply).value, round |-> Head(reply).round,
                   question |-> asked]
  /\ reply' = Tail(reply)
  /\ taken' = taken + 1
  /\ waitingReply' = FALSE
  /\ pc' = [pc EXCEPT ![t] = "dispatch"]
  /\ UNCHANGED <<lockVars, streamVars, replies, replyOutcome, till, printerVars,
                 epVars, tefVars, reqVars, pollVars, pushed, path, drv, did, asked,
                 printLog>>
  /\ UNCHANGED <<clockVars, aborts, devVars, updates, streamHist, drawerHist, epHist>>

\* the driver calls _print_callback, which is wrapped by lock_printer
TefResource_print_callback(t, holder, merchant) ==
  /\ pc[t] = "dispatch"
  /\ cbCount[t] < MaxCallbacks
  /\ cbCount' = [cbCount EXCEPT ![t] = @ + 1]
  /\ printArgs' = [printArgs EXCEPT ![t] = [holder |-> holder, merchant |-> merchant]]
  /\ pc' = [pc EXCEPT ![t] = "print_lock"]
  /\ UNCHANGED <<lockVars, streamVars, replyVars, till, printerVars, epVars,
                 sigName, fin, connected, reqVars, pollVars, histVars>>
  /\ UNCHANGED <<clockVars, aborts, devVars, updates, streamHist, drawerHist, epHist>>

TefResource_print_callback_lock(t) ==
  /\ pc[t] = "print_lock"
  /\ lock_printer_acquire(t)
  /\ pc' = [pc EXCEPT ![t] = "printing"]
  /\ UNCHANGED <<pinpadLock, satLock, streamVars, replyVars, till, printerVars,
                 epVars, tefVars, reqVars, pollVars, pushed, path, drv, asked, taken,
                 lastTaken, printLog>>
  /\ UNCHANGED <<clockVars, aborts, devVars, updates, streamHist, drawerHist, epHist>>

\* mutant: the holder copy is printed before the merchant copy
PrintCalls_holder_first(holder, merchant) ==
  (IF holder THEN <<"print_line(holder)", "cut_paper">> ELSE <<>>)
  \o (IF merchant THEN <<"print_line(merchant)", "cut_paper">> ELSE <<>>)

\* the lines _print_callback sends to the printer
PrintCalls(holder, merchant) ==
  (IF merchant THEN <<"print_line(merchant)", "cut_paper">> ELSE <<>>)
  \o (IF holder THEN <<"print_line(holder)", "cut_paper">> ELSE <<>>)

\* body of _print_callback and the release of the lock
TefResource_print_callback_body(t) ==
  /\ pc[t] = "printing"
  /\ IF ~printerConfigured
       THEN /\ printLog' = <<>>
            /\ UNCHANGED printerVars
       ELSE /\ printLog' = PrintCalls(printArgs[t].holder, printArgs[t].merchant)
            /\ devPrinter' = PrinterHandle
            /\ nextHandle' = HandleAfter
            /\ use_printer(t)
            /\ UNCHANGED <<printerConfigured, closedHandles, satUiPrinter,
                           nonfiscalUiPrinter, faults>>
  /\ lock_printer_release(t)
  /\ pc' = [pc EXCEPT ![t] = "dispatch"]
  /\ printArgs' = [printArgs EXCEPT ![t] = [holder |-> FALSE, merchant |-> FALSE]]
  /\ UNCHANGED <<pinpadLock, satLock, streamVars, replyVars, till, epVars,
                 sigName, cbCount, fin, connected, reqVars, pollVars, pushed, path,
                 drv, did, asked, taken, lastTaken>>
  /\ UNCHANGED <<clockVars, aborts, devVars, updates, streamHist, drawerHist, epHist>>

\* operation_signal.send(...)[0][1] returns retval; message = retval['message']
\* raises KeyError or TypeError (one argument) when retval has no 'message'
TefResource_post_driver_return(t, retval) ==
  /\ pc[t] = "dispatch"
  /\ drv' = [drv EXCEPT ![t] = [kind |-> "return", retval |-> retval, args |-> <<>>]]
  /\ path' = [path EXCEPT ![t] = "driver_return"]
  /\ fin' = [fin EXCEPT ![t] =
               IF retval.py = "dict"
                 THEN [success |-> retval, message |-> retval.val]
                 ELSE [success |-> PyFalse,
                       message |-> exception_message(<<"message">>)]]
  /\ pc' = [pc EXCEPT ![t] = "put_finished"]
  /\ UNCHANGED <<lockVars, streamVars, replyVars, till, printerVars, epVars,
                 sigName, cbCount, printArgs, connected, reqVars, pollVars, pushed,
                 did, asked, taken, lastTaken, printLog>>
  /\ UNCHANGED <<clockVars, aborts, devVars, updates, streamHist, drawerHist, epHist>>

\* mutant: the driver's exception propagates out of post
TefResource_post_driver_raise_propagates(t, args) ==
  /\ pc[t] = "dispatch"
  /\ drv' = [drv EXCEPT ![t] = [kind |-> "raise", retval |-> PyFalse, args |-> args]]
  /\ path' = [path EXCEPT ![t] = "driver_raise"]
  /\ post_return(t)
  /\ UNCHANGED <<printerLock, satLock, streamVars, replyVars, till, printerVars, epVars,
                 sigName, printArgs, connected, reqVars, pollVars, pushed,
                 did, asked, taken, lastTaken, printLog>>
  /\ UNCHANGED <<clockVars, aborts, devVars, updates, streamHist, drawerHist, epHist>>

\* the driver raises an Exception with e.args = args
TefResource_post_driver_raise(t, args) ==
  /\ pc[t] = "dispatch"
  /\ drv' = [drv EXCEPT ![t] = [kind |-> "raise", retval |-> PyFalse, args |-> args]]
  /\ path' = [path EXCEPT ![t] = "driver_raise"]
  /\ fin' = [fin EXCEPT ![t] = [success |-> PyFalse, message |-> exception_message(args)]]
  /\ pc' = [pc EXCEPT ![t] = "put_finished"]
  /\ UNCHANGED <<lockVars, streamVars, replyVars, till, printerVars, epVars,
                 sigName, cbCount, printArgs, connected, reqVars, pollVars, pushed,
                 did, asked, taken, lastTaken, printLog>>
  /\ UNCHANGED <<clockVars, aborts, devVars, updates, streamHist, drawerHist, epHist>>

\* the final EventStream.put of post, and the return through lock_pinpad
TefResource_post_finished(t) ==
  /\ pc[t] = "put_finished"
  /\ TefPush(t, EvFinished(fin[t].success, fin[t].message))
  /\ post_return(t)
  /\ UNCHANGED <<printerLock, satLock, hasStream, streams, subs, replyVars, till,
                 printerVars, epVars, sigName, printArgs, connected, reqVars, pollVars,
                 path, drv, did, asked, taken, lastTaken, printLog>>
  /\ UNCHANGED <<clockVars, aborts, devVars, updates, yielded, canceled, drawerHist, epHist>>

\* ----------------------------------------------- TefCancelCurrentOperation
\* mutant: the abort request also releases the waiting question callback
TefCancelCurrentOperation_post_unblocks ==
  /\ aborts' = aborts + 1
  /\ reply' = Append(reply, [value |-> "abort", round |-> asked])
  /\ UNCHANGED <<lockVars, streamVars, waitingReply, replies, replyOutcome, till,
                 printerVars, epVars, tefVars, reqVars, pollVars, histVars, pc>>
  /\ UNCHANGED <<clockVars, devVars, updates, streamHist, drawerHist, epHist>>

\* post: signal('TefAbortOperationEvent').send(); the request reaches the
\* driver, which decides on its own whether and when its dispatch ends
TefCancelCurrentOperation_post ==
  /\ aborts' = aborts + 1
  /\ UNCHANGED <<lockVars, streamVars, replyVars, till, printerVars, epVars,
                 tefVars, reqVars, pollVars, histVars, pc>>
  /\ UNCHANGED <<clockVars, devVars, updates, streamHist, drawerHist, epHist>>

\* ------------------------------------------------------------ check_drawer
\* check_drawer_loop: gevent.sleep(1) returns, check_drawer() is called
check_drawer_loop(t) ==
  /\ pc[t] = "idle"
  /\ pc' = [pc EXCEPT ![t] = "lock_printer"]
  /\ UNCHANGED <<lockVars, streamVars, replyVars, till, printerVars, epVars,
                 tefVars, reqVars, pollVars, histVars>>
  /\ UNCHANGED <<clockVars, aborts, devVars, updates, streamHist, drawerHist, epHist>>

\* @lock_printer of check_drawer
check_drawer_lock(t) ==
  /\ pc[t] = "lock_printer"
  /\ lock_printer_acquire(t)
  /\ pc' = [pc EXCEPT ![t] = "ensure"]
  /\ UNCHANGED <<pinpadLock, satLock, streamVars, replyVars, till, printerVars,
                 epVars, tefVars, reqVars, pollVars, pushed, path, drv, asked, taken,
                 lastTaken, printLog>>
  /\ UNCHANGED <<clockVars, aborts, devVars, updates, streamHist, drawerHist, epHist>>

\* check_drawer returns (None on a transport fault) and the lock is released
check_drawer_return(t) ==
  /\ pc[t] = "ep_done"
  /\ lock_printer_release(t)
  /\ pc' = [pc EXCEPT ![t] = IF epResult[t] = "AssertionError" THEN "done" ELSE "compare"]
  /\ newIsOpen' = IF epResult[t] \in OkResults THEN epResult[t] ELSE "None"
  /\ ep_reset(t)
  /\ UNCHANGED <<pinpadLock, satLock, streamVars, replyVars, till, printerVars,
                 tefVars, reqVars, isOpen, polls, histVars>>
  /\ UNCHANGED <<clockVars, aborts, devVars, updates, streamHist, drawerHist, epRetries>>

DrawerMessage(v) ==
  CASE v = "True" -> "DRAWER_ALERT_OPEN"
    [] v = "False" -> "DRAWER_ALERT_CLOSE"
    [] OTHER -> "DRAWER_ALERT_ERROR"

\* status_printer = None if new_is_open is None else True
StatusPrinter(v) == IF v = "None" THEN "None" ELSE "True"

\* mutant: the two events are put on every iteration
check_drawer_loop_compare_always(t) ==
  /\ pc[t] = "compare"
  /\ has_stream_wait
  /\ queues' = put(put(queues, streams, StationOf(t),
                       EvDrawer(DrawerMessage(newIsOpen))),
                   streams, StationOf(t),
                   EvDeviceStatus("printer", StatusPrinter(newIsOpen)))
  /\ enq' = put(put(enq, streams, StationOf(t),
                    EvDrawer(DrawerMessage(newIsOpen))),
                streams, StationOf(t),
                EvDeviceStatus("printer", StatusPrinter(newIsOpen)))
  /\ alerts' = Append(alerts, DrawerMessage(newIsOpen))
  /\ isOpen' = newIsOpen
  /\ observed' = Append(observed, newIsOpen)
  /\ newIsOpen' = "unknown"
  /\ polls' = polls + 1
  /\ pc' = [pc EXCEPT ![t] = "idle"]
  /\ UNCHANGED <<lockVars, hasStream, streams, subs, replyVars, till, printerVars,
                 epVars, tefVars, reqVars, histVars>>
  /\ UNCHANGED <<clockVars, aborts, devVars, updates, yielded, canceled, epHist>>

\* if is_open != new_is_open: two puts; then gevent.sleep(1)
check_drawer_loop_compare(t) ==
  /\ pc[t] = "compare"
  /\ IF isOpen # newIsOpen
       THEN /\ has_stream_wait
            /\ queues' = put(put(queues, streams, StationOf(t),
                                 EvDrawer(DrawerMessage(newIsOpen))),
                             streams, StationOf(t),
                             EvDeviceStatus("printer", StatusPrinter(newIsOpen)))
            /\ enq' = put(put(enq, streams, StationOf(t),
                              EvDrawer(DrawerMessage(newIsOpen))),
                          streams, StationOf(t),
                          EvDeviceStatus("printer", StatusPrinter(newIsOpen)))
            /\ alerts' = Append(alerts, DrawerMessage(newIsOpen))
            /\ isOpen' = newIsOpen
       ELSE UNCHANGED <<queues, isOpen, enq, alerts>>
  /\ observed' = Append(observed, newIsOpen)
  /\ newIsOpen' = "unknown"
  /\ polls' = polls + 1
  /\ pc' = [pc EXCEPT ![t] = "idle"]
  /\ UNCHANGED <<lockVars, hasStream, streams, subs, replyVars, till, printerVars,
                 epVars, tefVars, reqVars, histVars>>
  /\ UNCHANGED <<clockVars, aborts, devVars, updates, yielded, canceled, epHist>>

\* ------------------------------------- check_sat_loop, check_pinpad_loop
\* event_reply and event_reply[0][1]: what the receiver says of the device
DevResults == {"True", "False"}

\* the lock of a poller's device: lock_sat or lock_pinpad
DeviceLock(t) == IF t = "sat" THEN satLock ELSE pinpadLock

\* mutant: a poll that could not take the lock reports the device as failed
keep_previous_failed(old) == "False"

\* except LockFailedException: new_sat_ok = sat_ok (new_pinpad_ok = pinpad_ok)
keep_previous(old) == old

\* check_sat_loop up to its loop: it returns at once when
\* CheckSatStatusEvent has no receiver; otherwise sat_ok = -1
check_sat_loop(t, receivers) ==
  /\ t = "sat"
  /\ pc[t] = "idle"
  /\ pc' = [pc EXCEPT ![t] = IF receivers THEN "poll" ELSE "done"]
  /\ devOk' = [devOk EXCEPT ![t] = Sentinel]
  /\ UNCHANGED <<lockVars, streamVars, replyVars, till, printerVars, epVars,
                 tefVars, reqVars, pollVars, histVars>>
  /\ UNCHANGED <<clockVars, aborts, devNew, devPolls, updates, streamHist, drawerHist, epHist>>

\* check_pinpad_loop up to its loop: pinpad_ok = -1
check_pinpad_loop(t) ==
  /\ t = "pinpad"
  /\ pc[t] = "idle"
  /\ pc' = [pc EXCEPT ![t] = "poll"]
  /\ devOk' = [devOk EXCEPT ![t] = Sentinel]
  /\ UNCHANGED <<lockVars, streamVars, replyVars, till, printerVars, epVars,
                 tefVars, reqVars, pollVars, histVars>>
  /\ UNCHANGED <<clockVars, aborts, devNew, devPolls, updates, streamHist, drawerHist, epHist>>

\* check_sat() / check_pinpad() is called: lock_sat(block=False) or
\* lock_pinpad(block=False) takes the free lock and the status event is
\* sent, or raises LockFailedException, which the loop catches
check_device(t) ==
  /\ pc[t] = "poll"
  /\ IF DeviceLock(t) = Free
       THEN /\ satLock' = IF t = "sat" THEN t ELSE satLock
            /\ pinpadLock' = IF t = "pinpad" THEN t ELSE pinpadLock
            /\ pc' = [pc EXCEPT ![t] = "probe"]
            /\ UNCHANGED devNew
       ELSE /\ devNew' = [devNew EXCEPT ![t] = keep_previous(devOk[t])]
            /\ pc' = [pc EXCEPT ![t] = "kept"]
            /\ UNCHANGED <<satLock, pinpadLock>>
  /\ UNCHANGED <<printerLock, streamVars, replyVars, till, printerVars, epVars,
                 tefVars, reqVars, pollVars, histVars>>
  /\ UNCHANGED <<clockVars, aborts, devOk, devPolls, updates, streamHist, drawerHist, epHist>>

\* the receiver has answered: check_sat / check_pinpad returns its answer
\* and the lock is released
check_device_reply(t, result) ==
  /\ pc[t] = "probe"
  /\ satLock' = IF t = "sat" THEN Free ELSE satLock
  /\ pinpadLock' = IF t = "pinpad" THEN Free ELSE pinpadLock
  /\ devNew' = [devNew EXCEPT ![t] = result]
  /\ pc' = [pc EXCEPT ![t] = "compare"]
  /\ UNCHANGED <<printerLock, streamVars, replyVars, till, printerVars, epVars,
                 tefVars, reqVars, pollVars, histVars>>
  /\ UNCHANGED <<clockVars, aborts, devOk, devPolls, updates, streamHist, drawerHist, epHist>>

\* if sat_ok != new_sat_ok: put DEVICE_STATUS_CHANGED and record the new
\* value; then gevent.sleep
check_device_loop_compare(t) ==
  /\ pc[t] \in {"compare", "kept"}
  /\ IF devOk[t] # devNew[t]
       THEN /\ has_stream_wait
            /\ queues' = put(queues, streams, StationOf(t), EvDeviceStatus(t, devNew[t]))
            /\ enq' = put(enq, streams, StationOf(t), EvDeviceStatus(t, devNew[t]))
            /\ devOk' = [devOk EXCEPT ![t] = devNew[t]]
       ELSE UNCHANGED <<queues, enq, devOk>>
  /\ devPolls' = [devPolls EXCEPT ![t] = @ + 1]
  /\ pc' = [pc EXCEPT ![t] = "poll"]
  /\ UNCHANGED <<lockVars, hasStream, streams, subs, replyVars, till, printerVars,
                 epVars, tefVars, reqVars, pollVars, histVars>>
  /\ UNCHANGED <<clockVars, aborts, devNew, updates, yielded, canceled, drawerHist, epHist>>

\* ------------------------------------------------- DataResource.get_data
\* GET /data: get_data starts its three device checks (not is_multiclient)
DataResource_get(t) ==
  /\ t \in DataTasks
  /\ pc[t] = "idle"
  /\ pc' = [pc EXCEPT ![t] = "check_sat"]
  /\ UNCHANGED <<lockVars, streamVars, replyVars, till, printerVars, epVars,
                 tefVars, reqVars, pollVars, histVars>>
  /\ UNCHANGED <<clockVars, aborts, devVars, updates, streamHist, drawerHist, epHist>>

\* sat_status = check_sat() / pinpad_status = check_pinpad(): the
\* non-blocking lock is taken, or LockFailedException makes the status True
get_data_check_device(t) ==
  /\ pc[t] \in {"check_sat", "check_pinpad"}
  /\ LET lock == IF pc[t] = "check_sat" THEN satLock ELSE pinpadLock
     IN IF lock = Free
          THEN /\ satLock' = IF pc[t] = "check_sat" THEN t ELSE satLock
               /\ pinpadLock' = IF pc[t] = "check_pinpad" THEN t ELSE pinpadLock
               /\ pc' = [pc EXCEPT ![t] =
                           IF @ = "check_sat" THEN "probe_sat" ELSE "probe_pinpad"]
          ELSE /\ pc' = [pc EXCEPT ![t] =
                           IF @ = "check_sat" THEN "check_pinpad" ELSE "lock_printer"]
               /\ UNCHANGED <<satLock, pinpadLock>>
  /\ UNCHANGED <<printerLock, streamVars, replyVars, till, printerVars, epVars,
                 tefVars, reqVars, pollVars, histVars>>
  /\ UNCHANGED <<clockVars, aborts, devVars, updates, streamHist, drawerHist, epHist>>

\* check_sat() / check_pinpad() returns and its lock is released
get_data_device_reply(t) ==
  /\ pc[t] \in {"probe_sat", "probe_pinpad"}
  /\ satLock' = IF pc[t] = "probe_sat" THEN Free ELSE satLock
  /\ pinpadLock' = IF pc[t] = "probe_pinpad" THEN Free ELSE pinpadLock
  /\ pc' = [pc EXCEPT ![t] = IF @ = "probe_sat" THEN "check_pinpad" ELSE "lock_printer"]
  /\ UNCHANGED <<printerLock, streamVars, replyVars, till, printerVars, epVars,
                 tefVars, reqVars, pollVars, histVars>>
  /\ UNCHANGED <<clockVars, aborts, devVars, updates, streamHist, drawerHist, epHist>>

\* printer_status = ... check_drawer(): @lock_printer
get_data_check_drawer(t) ==
  /\ t \in DataTasks
  /\ pc[t] = "lock_printer"
  /\ lock_printer_acquire(t)
  /\ pc' = [pc EXCEPT ![t] = "ensure"]
  /\ UNCHANGED <<pinpadLock, satLock, streamVars, replyVars, till, printerVars,
                 epVars, tefVars, reqVars, pollVars, pushed, path, drv, asked, taken,
                 lastTaken, printLog>>
  /\ UNCHANGED <<clockVars, aborts, devVars, updates, streamHist, drawerHist, epHist>>

\* check_drawer returns, the lock is released and get_data builds its answer
get_data_return(t) ==
  /\ t \in DataTasks
  /\ pc[t] = "ep_done"
  /\ lock_printer_release(t)
  /\ ep_reset(t)
  /\ pc' = [pc EXCEPT ![t] = "done"]
  /\ UNCHANGED <<pinpadLock, satLock, streamVars, replyVars, till, printerVars,
                 tefVars, reqVars, pollVars, histVars>>
  /\ UNCHANGED <<clockVars, aborts, devVars, updates, streamHist, drawerHist, epRetries>>

\* ------------------------------------------------------ inform_till_status
\* the local times of day the worker may be started at
Times == {k * (DaySeconds \div TimesPerDay) : k \in 0..(TimesPerDay - 1)}

Max(a, b) == IF a >= b THEN a ELSE b

\* update_time = today at 06:00;
\* wait_time = (update_time + timedelta(days=1) - now).total_seconds()
wait_time(now) == UpdateHour + DaySeconds - now

\* the worker is started: the clock reads now
inform_till_status_spawn(t, now) ==
  /\ t \in TillTasks
  /\ pc[t] = "idle"
  /\ tillNow = "unset"
  /\ tillNow' = now
  /\ pc' = [pc EXCEPT ![t] = "loop"]
  /\ UNCHANGED <<lockVars, streamVars, replyVars, till, printerVars, epVars,
                 tefVars, reqVars, pollVars, histVars>>
  /\ UNCHANGED <<tillWait, tillChecks, aborts, devVars, updates, streamHist,
                 drawerHist, epHist>>

\* top of the loop: gevent.sleep(max(60, wait_time)) is called
inform_till_status(t) ==
  /\ t \in TillTasks
  /\ pc[t] = "loop"
  /\ tillWait' = Max(MinSleep, wait_time(tillNow))
  /\ pc' = [pc EXCEPT ![t] = "sleep"]
  /\ UNCHANGED <<lockVars, streamVars, replyVars, till, printerVars, epVars,
                 tefVars, reqVars, pollVars, histVars>>
  /\ UNCHANGED <<tillNow, tillChecks, aborts, devVars, updates, streamHist,
                 drawerHist, epHist>>

\* the sleep is over: the clock has advanced by the wait;
\* Till.get_last(store, station).status raises when there is no till
inform_till_status_wake(t) ==
  /\ t \in TillTasks
  /\ pc[t] = "sleep"
  /\ tillNow' = (tillNow + tillWait) % DaySeconds
  /\ tillChecks' = tillChecks + 1
  /\ IF till[StationOf(t)] = "none"
       THEN /\ pc' = [pc EXCEPT ![t] = "done"]
            /\ UNCHANGED <<queues, enq>>
       ELSE /\ has_stream_wait
            /\ queues' = put(queues, streams, StationOf(t), EvCheckTill(till[StationOf(t)]))
            /\ enq' = put(enq, streams, StationOf(t), EvCheckTill(till[StationOf(t)]))
            /\ pc' = [pc EXCEPT ![t] = "loop"]
  /\ UNCHANGED <<lockVars, hasStream, streams, subs, replyVars, till, printerVars,
                 epVars, tefVars, reqVars, pollVars, histVars>>
  /\ UNCHANGED <<tillWait, aborts, devVars, updates, yielded, canceled, drawerHist,
                 epHist>>

\* ------------------------------------------- resources wrapped by lock_printer
TillOps == {"open_till", "close_till", "close_till_image", "entry"}

\* a request for one of the lock_printer resources arrives
Request(t, kind) ==
  /\ pc[t] = "idle"
  /\ reqKind' = [reqKind EXCEPT ![t] = kind]
  /\ pc' = [pc EXCEPT ![t] = "lock_printer"]
  /\ UNCHANGED <<lockVars, streamVars, replyVars, till, printerVars, epVars,
                 tefVars, reqOp, pollVars, histVars>>
  /\ UNCHANGED <<clockVars, aborts, devVars, updates, streamHist, drawerHist, epHist>>

\* lock_printer.new_func: with _printer_lock
Request_lock(t) ==
  /\ pc[t] = "lock_printer"
  /\ lock_printer_acquire(t)
  /\ pc' = [pc EXCEPT ![t] =
              CASE reqKind[t] \in {"DrawerResource.get", "PrintCouponResource.get"}
                     -> "ensure"
                [] reqKind[t] = "SaleResource.post" -> "lock_sat"
                [] OTHER -> "body"]
  /\ UNCHANGED <<pinpadLock, satLock, streamVars, replyVars, till, printerVars,
                 epVars, tefVars, reqVars, pollVars, pushed, path, drv, asked, taken,
                 lastTaken, printLog>>
  /\ UNCHANGED <<clockVars, aborts, devVars, updates, streamHist, drawerHist, epHist>>

\* mutant: the sale takes the pinpad lock inside the printer lock
Request_lock_sat_pinpad(t) ==
  /\ pc[t] = "lock_sat"
  /\ lock_pinpad_block(t)
  /\ pc' = [pc EXCEPT ![t] = "body"]
  /\ UNCHANGED <<printerLock, satLock, streamVars, replyVars, till, printerVars,
                 epVars, tefVars, reqVars, pollVars, histVars>>
  /\ UNCHANGED <<clockVars, aborts, devVars, updates, streamHist, drawerHist, epHist>>

\* @lock_sat(block=True) of SaleResource.post, inside lock_printer
Request_lock_sat(t) ==
  /\ pc[t] = "lock_sat"
  /\ lock_sat_block(t)
  /\ pc' = [pc EXCEPT ![t] = "body"]
  /\ UNCHANGED <<printerLock, pinpadLock, streamVars, replyVars, till, printerVars,
                 epVars, tefVars, reqVars, pollVars, histVars>>
  /\ UNCHANGED <<clockVars, aborts, devVars, updates, streamHist, drawerHist, epHist>>

\* the handler returns or raises: its locals are gone
req_return(t) ==
  /\ reqKind' = [reqKind EXCEPT ![t] = "none"]
  /\ reqOp' = [reqOp EXCEPT ![t] = "none"]

\* the handler's work on the printer; close_till without an image calls
\* ensure_printer first
Request_body(t, op) ==
  /\ pc[t] = "body"
  /\ IF reqKind[t] = "TillResource.post" /\ op = "close_till"
       THEN /\ pc' = [pc EXCEPT ![t] = "ensure"]
            /\ reqOp' = [reqOp EXCEPT ![t] = op]
            /\ UNCHANGED <<lockVars, till, printerVars, reqKind>>
       ELSE /\ pc' = [pc EXCEPT ![t] = "done"]
            /\ req_return(t)
            /\ lock_printer_release(t)
            /\ satLock' = IF satLock = t THEN Free ELSE satLock
            /\ UNCHANGED pinpadLock
            /\ IF reqKind[t] = "TillResource.post"
                 THEN /\ till' = [till EXCEPT ![StationOf(t)] =
                                    CASE op = "open_till" /\ @ # "open" -> "open"
                                      [] op = "close_till_image" /\ @ = "open" -> "closed"
                                      [] OTHER -> @]
                      /\ UNCHANGED printerVars
                 ELSE /\ op = "entry"
                      /\ UNCHANGED till
                      /\ IF ~printerConfigured
                           THEN UNCHANGED printerVars
                           ELSE /\ use_printer(t)
                                /\ devPrinter' = PrinterHandle
                                /\ nextHandle' = HandleAfter
                                /\ UNCHANGED <<printerConfigured, closedHandles,
                                               satUiPrinter, nonfiscalUiPrinter, faults>>
  /\ UNCHANGED <<streamVars, replyVars, epVars, tefVars, pollVars, histVars>>
  /\ UNCHANGED <<clockVars, aborts, devVars, updates, streamHist, drawerHist, epHist>>

\* ensure_printer returned or raised inside the handler
Request_ensured(t) ==
  /\ pc[t] = "ep_done"
  /\ lock_printer_release(t)
  /\ pc' = [pc EXCEPT ![t] = "done"]
  /\ till' = IF reqKind[t] = "TillResource.post" /\ ~EnsureRaised(t)
                  /\ till[StationOf(t)] = "open"
               THEN [till EXCEPT ![StationOf(t)] = "closed"]
               ELSE till
  /\ IF reqKind[t] = "PrintCouponResource.get" /\ ~EnsureRaised(t) /\ printerConfigured
       THEN /\ use_printer(t)
            /\ UNCHANGED <<printerConfigured, devPrinter, nextHandle, closedHandles,
                           satUiPrinter, nonfiscalUiPrinter, faults>>
       ELSE UNCHANGED printerVars
  /\ ep_reset(t)
  /\ req_return(t)
  /\ UNCHANGED <<pinpadLock, satLock, streamVars, replyVars, tefVars,
                 pollVars, histVars>>
  /\ UNCHANGED <<clockVars, aborts, devVars, updates, streamHist, drawerHist, epRetries>>

\* ------------------------------------------------------------ specifications
EnsureStep(t) ==
  \/ ensure_printer_probe(t)
  \/ ensure_printer_retry(t)
  \/ ensure_printer_sleep(t)

\* TefResource.post with a driver that makes no callback
TefCore(t, names, retvals, argss) ==
  \/ \E name \in names : TefResource_post(t, name)
  \/ TefResource_post_lock_pinpad(t)
  \/ TefResource_post_till(t)
  \/ TefResource_post_lock_printer(t)
  \/ TefResource_post_checked(t)
  \/ TefResource_post_put_fail(t)
  \/ \E retval \in retvals : TefResource_post_driver_return(t, retval)
  \/ \E args \in argss : TefResource_post_driver_raise(t, args)
  \/ TefResource_post_finished(t)

\* the callbacks a driver may make during dispatch
TefMessages(t) ==
  \/ TefResource_message_callback(t, FALSE)
  \/ TefResource_message_callback_return(t)

TefQuestions(t) ==
  \/ TefResource_question_callback(t)
  \/ TefResource_question_callback_return(t)

TefPrints(t, segments) ==
  \/ \E holder \in segments, merchant \in segments :
       TefResource_print_callback(t, holder, merchant)
  \/ TefResource_print_callback_lock(t)
  \/ TefResource_print_callback_body(t)

PollStep(t) ==
  \/ polls < MaxPolls /\ check_drawer_loop(t)
  \/ check_drawer_lock(t)
  \/ check_drawer_return(t)
  \/ check_drawer_loop_compare(t)

ReqStep(t) ==
  \/ \E kind \in ReqKinds : Request(t, kind)
  \/ Request_lock(t)
  \/ Request_lock_sat(t)
  \/ \E op \in TillOps : Request_body(t, op)
  \/ Request_ensured(t)

Subscribe(stations, pendings) ==
  /\ subs < MaxSubs
  /\ \E station \in stations, pending \in pendings : EventStream_get(station, pending)

Deliver == \E qid \in 1..MaxSubs : EventStream_loop(qid)

Reply(bodies) == \E body \in bodies : TefReplyResource_post(body)

\* one interactive operation with every input a request and a driver can
\* give it, and the frontend that subscribes and answers
Next ==
  \/ TefCore("tef1", SignalNames, DriverRetvals, DriverArgs)
  \/ TefMessages("tef1")
  \/ TefQuestions("tef1")
  \/ TefPrints("tef1", BOOLEAN)
  \/ EnsureStep("tef1")
  \/ Subscribe({"S1"}, {FALSE})
  \/ Reply({"1", "{"})

Spec == Init /\ [][Next]_vars

\* two stations with an open till start interactive operations whose drivers
\* ask questions
NextQuestions ==
  \/ \E t \in TefTasks :
       \/ TefCore(t, {"StartTefAdminEvent"}, {PyDict("Aprovado")}, {<<"a0", "a1">>})
       \/ TefQuestions(t)
       \/ EnsureStep(t)
  \/ Subscribe(Stations, {FALSE})
  \/ Reply(ReplyBodies)

InitQuestions == Init /\ \A s \in Stations : till[s] = "open"

SpecQuestions == InitQuestions /\ [][NextQuestions]_vars

\* every user of the printer lock: a TEF operation whose driver prints, the
\* drawer poller and a request for a lock_printer resource
NextPrinter ==
  \/ TefResource_post("tef1", "StartTefAdminEvent")
  \/ TefResource_post_lock_pinpad("tef1")
  \/ TefResource_post_till("tef1")
  \/ TefResource_post_lock_printer("tef1")
  \/ TefResource_post_checked("tef1")
  \/ TefResource_post_put_fail("tef1")
  \/ TefResource_post_driver_return("tef1", PyDict("Aprovado"))
  \/ TefResource_post_finished("tef1")
  \/ TefPrints("tef1", {TRUE})
  \/ EnsureStep("tef1")
  \/ \E t \in PollTasks : PollStep(t) \/ EnsureStep(t)
  \/ \E t \in ReqTasks : ReqStep(t) \/ EnsureStep(t)
  \/ Subscribe({"S1"}, {FALSE})

InitPrinter == Init /\ \A s \in Stations : till[s] = "open"

SpecPrinter == InitPrinter /\ [][NextPrinter]_vars

\* the drawer poller on its own, for several iterations, with a printer
\* that answers open, closed or with a fault
DrawerStep(t) ==
  \/ polls < MaxObservations /\ check_drawer_loop(t)
  \/ check_drawer_lock(t)
  \/ check_drawer_return(t)
  \/ check_drawer_loop_compare(t)

NextDrawer ==
  \/ \E t \in PollTasks : DrawerStep(t) \/ EnsureStep(t)
  \/ Subscribe({"S1"}, {FALSE})
  \/ Deliver

SpecDrawer == Init /\ [][NextDrawer]_vars

\* the event stream on its own: both stations subscribe and re-subscribe,
\* with or without a pending transaction; an operation of station S2 and the
\* DataResource listener push; the streams yield
TefPusher(t) ==
  \/ TefResource_post(t, "StartTefAdminEvent")
  \/ TefResource_post_lock_pinpad(t)
  \/ TefResource_post_till(t)
  \/ TefResource_post_lock_printer(t)
  \/ ensure_printer_probe(t)
  \/ TefResource_post_checked(t)
  \/ TefResource_post_driver_return(t, PyDict("Aprovado"))
  \/ TefResource_post_finished(t)

Listener(t) ==
  \/ updates < MaxUpdates /\ DataResource_postgres_listen(t)
  \/ DataResource_put_all(t)

Yield == \E qid \in DOMAIN queues : EventStream_loop(qid)

NextStream ==
  \/ TefPusher("tef2")
  \/ \E t \in DataTasks : Listener(t)
  \/ subs < MaxStreamSubs /\
       \E station \in Stations, pending \in TefCheckPendingEvent_send :
         EventStream_get(station, pending)
  \/ Yield

InitStream == Init /\ ~printerConfigured /\ \A s \in Stations : till[s] = "open"

SpecStream == InitStream /\ [][NextStream]_vars

\* one station's stream end to end: its operation pushes messages and the
\* final event, the station subscribes and re-subscribes, the streams yield
NextFifo ==
  \/ TefPusher("tef2")
  \/ TefMessages("tef2")
  \/ subs < MaxStreamSubs /\ EventStream_get("S2", FALSE)
  \/ Yield

SpecFifo == InitStream /\ [][NextFifo]_vars

\* the till-deadline worker, started at any of the sampled times of day
TillStep(t) ==
  \/ \E now \in Times : inform_till_status_spawn(t, now)
  \/ tillChecks < MaxTillChecks /\ inform_till_status(t)
  \/ inform_till_status_wake(t)

NextTill ==
  \/ \E t \in TillTasks : TillStep(t)
  \/ Subscribe({"S1"}, {FALSE})

SpecTill == Init /\ [][NextTill]_vars

\* an interactive operation whose driver asks questions, the frontend that
\* answers them, and abort requests made at any moment
Abort == aborts < MaxAborts /\ TefCancelCurrentOperation_post

NextAbort ==
  \/ TefCore("tef1", {"StartTefAdminEvent"}, {PyDict("Aprovado")}, {<<"a0", "a1">>})
  \/ TefQuestions("tef1")
  \/ EnsureStep("tef1")
  \/ Subscribe({"S1"}, {FALSE})
  \/ Reply({"1"})
  \/ Abort

SpecAbort == InitQuestions /\ [][NextAbort]_vars

\* one interactive operation whose driver asks questions and the frontend
\* that answers them; a question callback that reply.put has woken is run by
\* the hub
NextReply ==
  \/ TefCore("tef1", {"StartTefAdminEvent"}, {PyDict("Aprovado")}, {<<"a0", "a1">>})
  \/ TefQuestions("tef1")
  \/ EnsureStep("tef1")
  \/ Subscribe({"S1"}, {FALSE})
  \/ Reply(ReplyBodies)

FairReply == WF_vars(TefResource_question_callback_return("tef1"))

SpecReply == InitQuestions /\ [][NextReply]_vars /\ FairReply

\* an interactive operation whose driver prints any of the two segments,
\* while the drawer poller competes for the printer lock
NextPrint ==
  \/ TefCore("tef1", {"StartTefAdminEvent"}, {PyDict("Aprovado")}, {<<"a0", "a1">>})
  \/ TefPrints("tef1", BOOLEAN)
  \/ EnsureStep("tef1")
  \/ \E t \in PollTasks : PollStep(t) \/ EnsureStep(t)
  \/ Subscribe({"S1"}, {FALSE})

SpecPrint == InitQuestions /\ [][NextPrint]_vars

\* ensure_printer called directly, for every retries up to MaxRetries and
\* every run of probe outcomes the fault budget allows
NextEnsure ==
  \E t \in EpTasks :
    \/ \E retries \in 0..MaxRetries : ensure_printer_call(t, retries)
    \/ EnsureStep(t)
    \/ ensure_printer_returned(t)

SpecEnsure == Init /\ [][NextEnsure]_vars

\* ensure_printer called again and again on the same device manager and
\* plugins, each call with its own retries
NextCalls ==
  \E t \in EpTasks :
    \/ \E retries \in 0..MaxRetries : ensure_printer_call(t, retries)
    \/ EnsureStep(t)
    \/ ensure_printer_returned(t)
    \/ ensure_printer_next(t)

SpecCalls == Init /\ [][NextCalls]_vars

\* the two status pollers, with a TEF operation that holds the pinpad lock
\* and a sale that holds the SAT lock while they poll
DeviceStep(t) ==
  \/ \E receivers \in BOOLEAN : check_sat_loop(t, receivers)
  \/ check_pinpad_loop(t)
  \/ devPolls[t] < MaxDevPolls /\ check_device(t)
  \/ \E result \in DevResults : check_device_reply(t, result)
  \/ check_device_loop_compare(t)

Sale(t) ==
  \/ Request(t, "SaleResource.post")
  \/ Request_lock(t)
  \/ Request_lock_sat(t)
  \/ Request_body(t, "entry")

NextDevices ==
  \/ \E t \in DevTasks : DeviceStep(t)
  \/ TefPusher("tef2")
  \/ \E t \in ReqTasks : Sale(t)
  \/ Subscribe({"S1"}, {FALSE})

SpecDevices == InitStream /\ [][NextDevices]_vars

\* the users of the three device locks at once: an interactive operation
\* whose driver prints, a sale, the SAT and pinpad pollers and a GET /data,
\* which makes the three checks the pollers make
GetData(t) ==
  \/ DataResource_get(t)
  \/ get_data_check_device(t)
  \/ get_data_device_reply(t)
  \/ get_data_check_drawer(t)
  \/ get_data_return(t)

\* the SAT and pinpad pollers of working devices, for as many rounds as the
\* drawer poller
LockPollStep(t) ==
  \/ check_sat_loop(t, TRUE)
  \/ check_pinpad_loop(t)
  \/ devPolls[t] < MaxPolls /\ check_device(t)
  \/ check_device_reply(t, "True")
  \/ check_device_loop_compare(t)

NextLocks ==
  \/ TefPusher("tef1")
  \/ TefPrints("tef1", {TRUE})
  \/ \E t \in ReqTasks : Sale(t)
  \/ \E t \in DevTasks : LockPollStep(t)
  \/ \E t \in DataTasks : GetData(t) \/ ensure_printer_probe(t)
  \/ Subscribe({"S2"}, {FALSE})

SpecLocks == InitStream /\ [][NextLocks]_vars

\* ================================================================= claims
Last(seq) == seq[Len(seq)]

\* the TEF_OPERATION_FINISHED events operation t has pushed
FinishedAt(t) ==
  {i \in 1..Len(pushed[t]) : pushed[t][i].ev.type = "TEF_OPERATION_FINISHED"}

\* the pcs inside a `with _printer_lock` block
PrinterSection == {"ensure", "ep_retry", "ep_sleep", "ep_done", "printing",
                   "lock_sat", "body"}
InPrinterSection(t) == pc[t] \in PrinterSection

\* C1: at most one task is inside a printer-lock section, that task is the
\* holder of the printer lock, and no operation on the printer handle was
\* made by a task that did not hold the lock.
C1_PrinterMutualExclusion ==
  /\ \A a, b \in Tasks : InPrinterSection(a) /\ InPrinterSection(b) => a = b
  /\ \A t \in Tasks : InPrinterSection(t) => printerLock = t
  /\ ~unlockedUse

\* a task sleeps inside ensure_printer with the lock while another waits for it
C1_Witness ==
  \E a, b \in Tasks :
    /\ a # b
    /\ pc[a] = "ep_sleep"
    /\ pc[b] \in {"lock_printer", "print_lock"}

\* C2: a question is published only when the reply of every earlier
\* question has been taken from the reply channel and no question callback
\* still waits: at most one question is outstanding in the whole process.
C2_OneQuestionOutstanding ==
  [][asked' # asked
       => /\ asked = taken
          /\ \A t \in Tasks : pc[t] # "wait_reply"]_vars

\* the second question of the process is outstanding while the other
\* station's operation waits for the pinpad
C2_Witness ==
  \E a, b \in TefTasks :
    /\ a # b
    /\ pc[a] = "wait_reply"
    /\ pc[b] = "lock_pinpad"
    /\ asked = 2
    /\ taken = 1

\* C3: a reply submitted while the waiting flag is clear fails on the
\* assertion and changes neither the reply channel, nor any event queue, nor
\* the flag.
C3_ReplyWithoutQuestion ==
  [][(replies' # replies /\ ~waitingReply)
       => /\ replyOutcome' = "AssertionError"
          /\ reply' = reply
          /\ queues' = queues
          /\ streams' = streams
          /\ waitingReply' = waitingReply]_vars

\* a reply was refused after a question round had been answered
C3_Witness ==
  /\ replyOutcome = "AssertionError"
  /\ ~waitingReply
  /\ taken > 0
  /\ Len(queues) > 0

\* C4: the reply a question callback returns was submitted during that
\* question's round, never during an earlier one.
C4_ReplyBelongsToQuestion ==
  taken > 0 => lastTaken.round = lastTaken.question

\* C5: on the three paths (driver returns, printer check fails, driver
\* raises) the operation pushes exactly one TEF_OPERATION_FINISHED, for its
\* own station, as its last event; a driver exception ends in that event and
\* not in an exception of post.
C5_OneFinalEventOnThreePaths ==
  \A t \in TefTasks :
    /\ \A i \in FinishedAt(t) : i = Len(pushed[t]) /\ pc[t] = "done"
    /\ \A i \in 1..Len(pushed[t]) : pushed[t][i].station = StationOf(t)
    /\ (pc[t] = "done" /\ path[t] \in {"driver_return", "printer_fail", "driver_raise"})
         => FinishedAt(t) = {Len(pushed[t])} /\ pushed[t] # <<>>
    /\ drv[t].kind = "raise"
         => path[t] = "driver_raise" /\ pc[t] \in {"put_finished", "done"}

\* the driver raised after a callback had pushed an event, and post is over
C5_Witness ==
  \E t \in TefTasks :
    /\ pc[t] = "done"
    /\ path[t] = "driver_raise"
    /\ Len(pushed[t]) >= 2

\* C6 as stated: every request that is over has pushed exactly one
\* TEF_OPERATION_FINISHED.
C6_Original ==
  \A t \in TefTasks : pc[t] = "done" => Cardinality(FinishedAt(t)) = 1

PostRaised(t) == path[t] \in {"TillError", "AssertionError", "AttributeError"}

\* C6 amended: a post that returns has pushed exactly one
\* TEF_OPERATION_FINISHED; a post that raises (TillError, the receiver
\* assertion, a request without a body) has pushed none; no post pushes two.
C6_OneFinalEventUnlessRaised ==
  \A t \in TefTasks :
    /\ Cardinality(FinishedAt(t)) <= 1
    /\ pc[t] = "done" =>
         Cardinality(FinishedAt(t)) = (IF PostRaised(t) THEN 0 ELSE 1)

\* a request failed the till precondition while a station was subscribed
C6_Witness ==
  \E t \in TefTasks :
    /\ pc[t] = "done"
    /\ path[t] = "TillError"
    /\ hasStream
    /\ FinishedAt(t) = {}

\* C7: the success field of every TEF_OPERATION_FINISHED is a boolean, true
\* when the driver returned normally and false otherwise.
C7_SuccessIsBoolean ==
  \A t \in TefTasks : \A i \in FinishedAt(t) :
    pushed[t][i].ev.success =
      (IF path[t] = "driver_return" THEN PyTrue ELSE PyFalse)

\* C8: when the driver raises, the final event carries success False and
\* the second argument of the exception if it has exactly two arguments,
\* the fallback message otherwise.
C8_MessageOfDriverFailure ==
  \A t \in TefTasks :
    (pc[t] = "done" /\ drv[t].kind = "raise") =>
      /\ pushed[t] # <<>>
      /\ Last(pushed[t]).ev =
           EvFinished(PyFalse,
                      IF Len(drv[t].args) = 2
                        THEN drv[t].args[2] ELSE FallbackMessage)

\* the driver raised with exactly two arguments and the event is pushed
C8_Witness ==
  \E t \in TefTasks :
    /\ pc[t] = "done"
    /\ drv[t].kind = "raise"
    /\ Len(drv[t].args) = 2
    /\ FinishedAt(t) # {}

TillNotOpen(t) == till[StationOf(t)] # "open"
PastTillCheck(t) == pc[t] \notin {"idle", "lock_pinpad", "till_check"}

\* C9: a request whose name needs a till, on a station without an open
\* till, ends in TillError having neither taken the printer lock, nor called
\* ensure_printer, nor connected or invoked a driver; for the exempt names
\* the till does not matter.
C9_TillPrecondition ==
  \A t \in TefTasks :
    /\ path[t] = "TillError" =>
         /\ pc[t] = "done"
         /\ did[t] = {}
         /\ t \notin connected
         /\ drv[t].kind = "none"
         /\ pushed[t] = <<>>
    /\ PastTillCheck(t) =>
         (path[t] = "TillError" <=>
            (sigName[t] \notin NoTillSignals /\ TillNotOpen(t)))

\* a sale operation was refused on a station whose till is closed
C9_Witness ==
  \E t \in TefTasks :
    /\ path[t] = "TillError"
    /\ sigName[t] = "StartTefSaleEvent"
    /\ till[StationOf(t)] = "closed"

\* C10: when ensure_printer raises in post, the operation takes the
\* printer-failure path: it holds no printer lock when it pushes, it pushes
\* only TEF_OPERATION_FINISHED with success False and the communication error
\* message, connects no callback and never invokes the driver.
C10_PrinterCheckFailure ==
  \A t \in TefTasks :
    /\ ("ensure_raised" \in did[t] /\ pc[t] \in {"put_fail", "done"})
         <=> path[t] = "printer_fail"
    /\ "ensure_raised" \in did[t] => pc[t] \in {"ep_done", "put_fail", "done"}
    /\ path[t] = "printer_fail" =>
         /\ printerLock # t
         /\ "driver" \notin did[t]
         /\ t \notin connected
         /\ drv[t].kind = "none"
         /\ pushed[t] =
              IF pc[t] = "done"
                THEN <<[ev |-> EvFinished(PyFalse, PrinterErrorMessage),
                        station |-> StationOf(t)]>>
                ELSE <<>>

\* the printer check failed and the final event is pushed
C10_Witness ==
  \E t \in TefTasks :
    /\ pc[t] = "done"
    /\ path[t] = "printer_fail"
    /\ pushed[t] # <<>>

\* ------------------------------------------------------------ event stream
\* the item task t passed to EventStream.put or put_all in this step, if any
Pushes(t) == Len(pushed'[t]) = Len(pushed[t]) + 1
PushedNow(t) == pushed'[t][Len(pushed'[t])]

\* the queue ids the registry holds
Registered(st) == {st[x] : x \in Stations} \ {0}

\* C11: no put or put_all completes while no station has ever subscribed;
\* a put that completes appends its event to the queue registered for the
\* named station, or changes no queue if there is none; the readiness flag,
\* once set, stays set, and from then on a task inside put or put_all can
\* always complete it.
C11_ReadinessGate ==
  /\ [](/\ ~hasStream => /\ queues = <<>>
                          /\ \A t \in Tasks : pushed[t] = <<>>
        /\ hasStream =>
             /\ \A t \in TefTasks :
                  pc[t] = "put_finished" => ENABLED TefResource_post_finished(t)
             /\ \A t \in DataTasks :
                  pc[t] = "put_all" => ENABLED DataResource_put_all(t))
  /\ [][/\ hasStream => hasStream'
        /\ \A t \in Tasks :
             Pushes(t) =>
               /\ hasStream
               /\ PushedNow(t).station \in Stations =>
                    LET q == streams[PushedNow(t).station]
                    IN queues' = IF q = 0 THEN queues
                                 ELSE [queues EXCEPT ![q] = Append(@, PushedNow(t).ev)]]_vars

\* an operation's put was held back until the other station subscribed, and
\* its event was then dropped: its own station has no queue
C11_Witness ==
  /\ hasStream
  /\ streams["S2"] = 0
  /\ pc["tef2"] = "done"
  /\ pushed["tef2"] # <<>>
  /\ \A q \in DOMAIN queues : \A i \in DOMAIN queues[q] :
       queues[q][i].type # "TEF_OPERATION_FINISHED"

\* the data of the frames a subscription's stream has yielded, in order
Delivered(q) == [i \in 1..Len(yielded[q]) |-> FrameData(yielded[q][i])]

\* the events a task has pushed, in the order of its calls to put
PushedEvents(t) == [i \in 1..Len(pushed[t]) |-> pushed[t][i].ev]

\* seq without its first element
Rest(seq) == SubSeq(seq, 2, Len(seq))

\* part occurs in whole as one contiguous run
IsSegment(part, whole) ==
  \E a \in 0..Len(whole) :
    /\ a + Len(part) <= Len(whole)
    /\ part = SubSeq(whole, a + 1, a + Len(part))

\* C12: each subscription's stream yields, in order and without loss or
\* duplication, the events enqueued on that subscription's queue (what was
\* enqueued is what was yielded followed by what is still queued, and every
\* frame is the "data: "-wrapped encoding of its event); the events one task
\* pushed to a station reach a subscription of that station in the order
\* of the task's pushes
C12_PerStationFifo ==
  \A q \in DOMAIN queues :
    /\ \A i \in 1..Len(yielded[q]) : yielded[q][i] = Frame(enq[q][i])
    /\ enq[q] = Delivered(q) \o queues[q]
    /\ enq[q][1] = Handshake
    /\ IsSegment(Rest(enq[q]), PushedEvents("tef2"))

C12_Witness ==
  \E q \in DOMAIN queues :
    /\ Len(yielded[q]) = 3
    /\ FrameData(yielded[q][2]).type = "TEF_DISPLAY_MESSAGE"
    /\ FrameData(yielded[q][3]).type = "TEF_OPERATION_FINISHED"

\* the items of a sequence
Items(seq) == {seq[i] : i \in DOMAIN seq}

Subscribes == subs' = subs + 1

YieldedAfterPutAll(s) ==
  /\ streams[s] # 0
  /\ EvUpdateData \in Items(enq[streams[s]])
  /\ Len(yielded[streams[s]]) >= 2

\* C15 as stated: after a station subscribes and put_all(e) is issued, the
\* first message its stream yields after the handshake is e
C15_Original ==
  \A s \in Stations :
    YieldedAfterPutAll(s) =>
      /\ yielded[streams[s]][1] = Frame(Handshake)
      /\ yielded[streams[s]][2] = Frame(EvUpdateData)

\* C15 as the code has it: after a station subscribes and put_all(e) is
\* issued, the first message its stream yields after the handshake is e
\* when the subscription found no pending transaction and no task has put
\* an event for that station
C15_FirstAfterHandshake ==
  \A s \in Stations :
    /\ YieldedAfterPutAll(s)
    /\ EvWarning \notin Items(enq[streams[s]])
    /\ \A t \in Tasks : \A i \in DOMAIN pushed[t] : pushed[t][i].station # s
    => /\ yielded[streams[s]][1] = Frame(Handshake)
       /\ yielded[streams[s]][2] = Frame(EvUpdateData)

C15_Witness ==
  /\ streams["S1"] # 0
  /\ updates = 1
  /\ yielded[streams["S1"]] = <<Frame(Handshake), Frame(EvUpdateData)>>

\* C16: a subscription that found a pending transaction has its queue start
\* with the handshake, TEF_WARNING_MESSAGE and CLEAR_SALE, in this order
\* with nothing of any other task before or between them; a subscription
\* that found none never has either event on its queue
C16_PendingTransactionPair ==
  \A q \in DOMAIN enq :
    IF canceled[q]
      THEN /\ Len(enq[q]) >= 3
           /\ SubSeq(enq[q], 1, 3) = <<Handshake, EvWarning, EvClearSale>>
           /\ \A i \in 4..Len(enq[q]) : enq[q][i] \notin {EvWarning, EvClearSale}
      ELSE /\ EvWarning \notin Items(enq[q])
           /\ EvClearSale \notin Items(enq[q])

C16_Witness ==
  /\ subs = 1
  /\ canceled = <<TRUE>>
  /\ streams["S2"] = 1
  /\ Len(enq[1]) = 4
  /\ enq[1][4].type = "TEF_OPERATION_FINISHED"

\* the alert kind check_drawer_loop's table gives a compared value
AlertKind(v) ==
  IF v = "True" THEN "DRAWER_ALERT_OPEN"
  ELSE IF v = "False" THEN "DRAWER_ALERT_CLOSE"
  ELSE "DRAWER_ALERT_ERROR"

\* the alerts due for a sequence of compared values, starting from prev:
\* one per value that differs from the value before it
RECURSIVE Changes(_, _)
Changes(prev, seq) ==
  IF seq = <<>> THEN <<>>
  ELSE IF Head(seq) # prev
    THEN <<AlertKind(Head(seq))>> \o Changes(Head(seq), Tail(seq))
    ELSE Changes(prev, Tail(seq))

\* C17: the DRAWER_ALERT_* events check_drawer_loop has emitted are, in
\* order, one per change between consecutive compared values (the first
\* value is a change from the initial unknown state), each of the kind of
\* the new value; a value equal to the one before it emits nothing
C17_AlertsAreChanges ==
  /\ alerts = Changes("unknown", observed)
  /\ \A v \in Items(observed) : v \in {"True", "False", "None"}

C17_Witness ==
  /\ Len(observed) = 3
  /\ observed[1] = observed[2]
  /\ observed[3] # observed[2]
  /\ Len(alerts) = 2

\* a step that puts a DEVICE_STATUS_CHANGED event of device d on some queue
EmitsStatus(d) ==
  \E q \in DOMAIN queues :
    /\ Len(queues'[q]) > Len(queues[q])
    /\ queues'[q][Len(queues'[q])].type = "DEVICE_STATUS_CHANGED"
    /\ queues'[q][Len(queues'[q])].device = d

\* C18: the SAT and pinpad pollers put DEVICE_STATUS_CHANGED, and record
\* a new value, only when the probe has answered and its answer differs
\* from the recorded value; an iteration that got LockFailedException puts
\* nothing and leaves the recorded value as it was; no event ever carries
\* the initial sentinel as its status
C18_DeviceStatusOnChange ==
  /\ [](\A q \in DOMAIN enq : \A i \in DOMAIN enq[q] :
          enq[q][i].type = "DEVICE_STATUS_CHANGED" => enq[q][i].status \in DevResults)
  /\ [][\A t \in DevTasks :
          /\ (EmitsStatus(t) \/ (pc[t] # "idle" /\ devOk'[t] # devOk[t])) =>
               /\ pc[t] = "compare"
               /\ devNew[t] \in DevResults
               /\ devNew[t] # devOk[t]
               /\ devOk'[t] = devNew[t]
          /\ (pc[t] = "poll" /\ DeviceLock(t) # Free /\ pc'[t] # "poll") =>
               /\ pc'[t] = "kept" /\ queues' = queues /\ devOk' = devOk
          /\ (pc[t] = "kept" /\ pc'[t] # "kept") =>
               /\ queues' = queues /\ devOk' = devOk]_vars

C18_Witness ==
  /\ streams["S1"] = 1
  /\ devOk["pinpad"] = Sentinel /\ devPolls["pinpad"] >= 1
  /\ devOk["sat"] \in DevResults /\ devPolls["sat"] = 2
  /\ EvDeviceStatus("sat", devOk["sat"]) \in Items(enq[1])
  /\ \A i \in DOMAIN enq[1] : enq[1][i].type = "DEVICE_STATUS_CHANGED" => enq[1][i].device = "sat"
  /\ Len(enq[1]) = 2

\* outcomes of a probe that count as a failure of the attempt
ProbeFailed(r) == r \notin OkResults

\* C19: ensure_printer with retries = 3 whose probes fail on attempts 1 and
\* 2 and succeed on attempt 3 returns the result of the attempt-3 probe
\* after exactly 2 one-unit sleeps
C19_ThirdAttemptResult ==
  \A t \in EpTasks :
    /\ pc[t] = "ep_done"
    /\ epRetries = 3
    /\ Len(epProbes[t]) >= 3
    /\ ProbeFailed(epProbes[t][1])
    /\ ProbeFailed(epProbes[t][2])
    /\ ~ProbeFailed(epProbes[t][3])
    => /\ epResult[t] = epProbes[t][3]
       /\ epI[t] = 2

\* C20: when the initial probe and every retry of ensure_printer fail, the
\* exception that leaves it is the fault of the initial probe
C20_OriginalFaultReraised ==
  \A t \in EpTasks :
    /\ pc[t] = "ep_done"
    /\ epProbes[t] # <<>>
    /\ \A i \in DOMAIN epProbes[t] : ProbeFailed(epProbes[t][i])
    => epResult[t] = epOrig[t]

\* C21: when no non-fiscal printer is configured, a call of ensure_printer
\* made with the printer lock held returns None at once: no probe is made,
\* the printer handle is neither closed nor reopened and no plugin cache
\* is touched
C21_UnconfiguredReturnsNone ==
  [][\A t \in Tasks :
       (pc[t] = "ensure" /\ pc'[t] # "ensure" /\ ~printerConfigured /\ printerLock # Free) =>
         /\ pc'[t] = "ep_done"
         /\ epResult'[t] = "None"
         /\ printerVars' = printerVars
         /\ epProbes' = epProbes
         /\ epVars' = [epVars EXCEPT ![4] = epResult']]_vars

C21_Witness ==
  \E t \in EpTasks :
    /\ pc[t] = "ep_done"
    /\ ~printerConfigured
    /\ epResult[t] = "None"
    /\ epProbes[t] = <<>>
    /\ devPrinter = 0 /\ closedHandles = {} /\ faults = 0

\* where a task is while it is inside ensure_printer
InEnsurePrinter == {"ensure", "ep_retry", "ep_sleep", "ep_done"}

\* C22: every task that is inside ensure_printer (called from
\* DrawerResource.get, TillResource._close_till, TefResource.post,
\* PrintCouponResource.get or check_drawer) holds the printer lock, and
\* no call of ensure_printer ends in the AssertionError of its entry
C22_EnsurePrinterUnderLock ==
  \A t \in Tasks :
    /\ pc[t] \in InEnsurePrinter => printerLock = t
    /\ epResult[t] # "AssertionError"

C22_Witness ==
  /\ \E t \in ReqTasks :
       /\ pc[t] = "ep_retry"
       /\ reqKind[t] = "TillResource.post"
       /\ printerLock = t
  /\ \E t \in PollTasks : pc[t] = "lock_printer"
  /\ pc["tef1"] = "lock_printer"

\* a step in which task t becomes the holder of a lock
Acquires(lock, t) == lock' = t /\ lock # t

\* C23 as stated: no task acquires the printer lock while it holds the
\* pinpad lock or the SAT lock
C23_Original ==
  [][\A t \in Tasks :
       Acquires(printerLock, t) => pinpadLock # t /\ satLock # t]_vars

\* C23 as the code has it: the locks are taken in one order, pinpad lock,
\* then printer lock, then SAT lock: no task acquires the printer lock
\* while it holds the SAT lock, none acquires the pinpad lock while it
\* holds the printer lock or the SAT lock
C23_LockOrder ==
  [][\A t \in Tasks :
       /\ Acquires(printerLock, t) => satLock # t
       /\ Acquires(pinpadLock, t) => printerLock # t /\ satLock # t
       /\ Acquires(satLock, t) => satLock = Free]_vars

C23_Witness ==
  /\ pinpadLock = "tef1" /\ printerLock = "tef1"
  /\ \E t \in ReqTasks : pc[t] = "lock_printer" /\ reqKind[t] = "SaleResource.post"

\* the device locks task t holds
Held(t) ==
  {l \in {"printer", "pinpad", "sat"} :
     \/ l = "printer" /\ printerLock = t
     \/ l = "pinpad" /\ pinpadLock = t
     \/ l = "sat" /\ satLock = t}

\* C24: the holder of the printer lock is inside a function wrapped by
\* lock_printer or inside the printer check of TefResource.post: once
\* the wrapped code has returned or raised the lock is free of that
\* task; a task that has finished holds no device lock
C24_LockReleasedOnExit ==
  \A t \in Tasks :
    /\ printerLock = t => InPrinterSection(t)
    /\ pc[t] = "done" => Held(t) = {}

C24_Witness ==
  /\ \E t \in ReqTasks : pc[t] = "done" /\ "printer_lock" \in did[t]
  /\ pc["tef1"] = "done" /\ "ensure_raised" \in did["tef1"]
  /\ printerLock = Free /\ pinpadLock = Free /\ satLock = Free

\* C25: an abort request only forwards the abort signal to the driver: the
\* waiting flag, the reply channel, every event queue and every device
\* lock stay as they were, and every task stays where it is, so a question
\* callback that waits for a reply keeps waiting and the dispatch goes on
C25_AbortOnlyForwards ==
  [][aborts' # aborts =>
       /\ waitingReply' = waitingReply
       /\ reply' = reply
       /\ queues' = queues /\ streams' = streams /\ hasStream' = hasStream
       /\ lockVars' = lockVars
       /\ pc' = pc
       /\ tefVars' = tefVars
       /\ pushed' = pushed /\ drv' = drv /\ taken' = taken]_vars

C25_Witness ==
  /\ aborts = 1
  /\ pc["tef1"] = "wait_reply"
  /\ waitingReply /\ reply = <<>>
  /\ pinpadLock = "tef1"

C27_NoPrinterIsNoError ==
  ~printerConfigured =>
    /\ "DRAWER_ALERT_ERROR" \notin Items(alerts)
    /\ \A q \in DOMAIN enq :
         /\ EvDrawer("DRAWER_ALERT_ERROR") \notin Items(enq[q])
         /\ EvDeviceStatus("printer", "None") \notin Items(enq[q])

\* seconds from a time of day to the next occurrence of 06:00
UntilNextUpdate(now) ==
  IF now < UpdateHour THEN UpdateHour - now ELSE UpdateHour + DaySeconds - now

\* C28: whatever the local time at which inform_till_status computes its
\* wait, the sleep lasts at least 60 seconds, reaches the next occurrence
\* of 06:00 and ends less than a whole day after it
C28_SleepUntilNextSix ==
  \A t \in TillTasks :
    pc[t] = "sleep" =>
      /\ tillWait >= MinSleep
      /\ tillWait >= UntilNextUpdate(tillNow)
      /\ tillWait < UntilNextUpdate(tillNow) + DaySeconds

\* the operations that are inside a question callback, blocked in reply.get()
Blocked == {t \in TefTasks : pc[t] = "wait_reply"}

\* C29: the waiting flag is set exactly while a question callback is
\* blocked on the reply channel: it is clear whenever no operation is
\* inside a question callback (so after every TEF_OPERATION_FINISHED), it
\* becomes set only in a step that has pushed TEF_ASK_QUESTION, and the
\* step in which the callback takes its reply and returns clears it
C29_WaitingFlag ==
  /\ [](waitingReply <=> Blocked # {})
  /\ [][/\ (waitingReply' /\ ~waitingReply)
             => (\E q \in TefTasks : Pushes(q) /\ PushedNow(q).ev = EvQuestion)
        /\ (taken' # taken) => ~waitingReply'
        /\ \A t \in TefTasks :
             (Pushes(t) /\ PushedNow(t).ev.type = "TEF_OPERATION_FINISHED")
               => (~waitingReply /\ ~waitingReply')]_vars

C29_Witness ==
  /\ ~waitingReply
  /\ taken = 2
  /\ \E t \in TefTasks : pc[t] = "done" /\ FinishedAt(t) # {}

\* C30: the reply channel never holds more than one reply that no
\* question callback has taken
C30_OneSlotReply == Len(reply) <= 1

\* the decoded values a reply submission can put on the reply channel
ReplyValues == {json_loads(b) : b \in {x \in ReplyBodies : JsonValid(x)}}

\* C31: a reply accepted while a question is pending is eventually the
\* value the blocked question callback of that question returns to the
\* driver, with the waiting flag cleared
C31_ReplyReachesCallback ==
  \A v \in ReplyValues, r \in 1..MaxCallbacks :
    (waitingReply /\ reply # <<>> /\ Last(reply) = [value |-> v, round |-> r])
      ~> (~waitingReply /\ lastTaken = [value |-> v, round |-> r, question |-> r])

\* positions of the print_line and of the cut_paper calls in a print log
LinesOf(log) == {i \in DOMAIN log : log[i] # "cut_paper"}
CutsOf(log) == {i \in DOMAIN log : log[i] = "cut_paper"}

\* the segments a print callback was given, merchant first
SegmentsOf(args) ==
  (IF args.merchant THEN <<"merchant">> ELSE <<>>)
  \o (IF args.holder THEN <<"holder">> ELSE <<>>)

\* C32: the print callback runs its body with the printer lock held; with
\* a printer handle it issues, for the merchant and then the holder segment,
\* if given, one print_line directly followed by one cut_paper, and nothing
\* else; without a handle it issues nothing. Cuts and lines are equal in
\* number, at most two of each.
C32_PrintCallback ==
  /\ [](\A t \in TefTasks : pc[t] = "printing" => printerLock = t)
  /\ [][\A t \in TefTasks :
          (pc[t] = "printing" /\ pc'[t] # "printing")
            => /\ printerLock' = Free
               /\ Cardinality(LinesOf(printLog')) = Cardinality(CutsOf(printLog'))
               /\ Len(printLog') <= 4
               /\ IF ~printerConfigured
                    THEN printLog' = <<>>
                    ELSE /\ Len(printLog') = 2 * Len(SegmentsOf(printArgs[t]))
                         /\ \A k \in 1..Len(SegmentsOf(printArgs[t])) :
                              /\ printLog'[2 * k - 1] =
                                   IF SegmentsOf(printArgs[t])[k] = "merchant"
                                     THEN "print_line(merchant)"
                                     ELSE "print_line(holder)"
                              /\ printLog'[2 * k] = "cut_paper"]_vars

\* both copies were printed by a callback that has returned to the driver,
\* and the drawer poller is about to take the lock
C32_Witness ==
  /\ pc["tef1"] = "dispatch"
  /\ pc["drawer"] = "lock_printer"
  /\ printLog = <<"print_line(merchant)", "cut_paper",
                  "print_line(holder)", "cut_paper">>

\* C33: when a message callback returns to the driver, the
\* TEF_DISPLAY_MESSAGE it pushed has been taken by the stream task: no
\* queue still holds it
C33_MessageFlushed ==
  [][\A t \in TefTasks :
       (pc[t] = "msg_sleep" /\ pc'[t] = "dispatch")
         => \A q \in DOMAIN queues : \A i \in DOMAIN queues[q] :
              queues[q][i].type # "TEF_DISPLAY_MESSAGE"]_vars

\* the DEVICE_STATUS_CHANGED events of the printer among queued items
IsPrinterStatus(e) == e.type = "DEVICE_STATUS_CHANGED" /\ e.device = "printer"
PrinterStatuses(seq) == SelectSeq(seq, IsPrinterStatus)

\* C34: the drawer poller announces the printer status only when it
\* differs from the status last announced: no two consecutive
\* DEVICE_STATUS_CHANGED events of the printer carry the same status
C34_PrinterStatusEdge ==
  \A q \in DOMAIN enq :
    \A i \in 1..(Len(PrinterStatuses(enq[q])) - 1) :
      PrinterStatuses(enq[q])[i].status # PrinterStatuses(enq[q])[i + 1].status

\* a step of ensure_printer in which a retry attempt got a handle to probe
RetryAttempt(t) == pc[t] = "ep_retry" /\ epI[t] < Retries(t) /\ devPrinter' # 0

\* C35: a fault of the initial probe closes the faulted handle and clears
\* the cached one; every retry attempt then probes a handle opened anew in
\* that attempt, never the handle that failed before; a successful retry
\* probe ends the loop
C35_FreshHandlePerAttempt ==
  [][\A t \in EpTasks :
       /\ (pc[t] = "ensure" /\ pc'[t] = "ep_retry")
            => /\ devPrinter' = 0
               /\ epPrinter'[t] # 0 => epPrinter'[t] \in closedHandles'
       /\ RetryAttempt(t)
            => /\ devPrinter = 0
               /\ devPrinter' # epPrinter[t]
               /\ devPrinter' \notin closedHandles
       /\ (RetryAttempt(t) /\ epProbes'[t][Len(epProbes[t]) + 1] \in OkResults)
            => pc'[t] = "ep_done"]_vars

\* C36: a transport fault of either kind raised by a probe of the retry
\* loop makes the loop go on to its sleep and the next attempt, and an
\* exception leaves ensure_printer from the retry phase only when the
\* retries are exhausted, and it is then the fault of the initial probe
C36_BothFaultsRetried ==
  [][\A t \in EpTasks :
       /\ (/\ pc[t] = "ep_retry"
           /\ epI[t] < Retries(t)
           /\ epProbes'[t][Len(epProbes[t]) + 1] \in FaultResults)
            => pc'[t] = "ep_sleep"
       /\ (/\ pc[t] = "ep_retry"
           /\ pc'[t] = "ep_done"
           /\ epResult'[t] \in FaultResults)
            => /\ epI[t] = Retries(t)
               /\ epResult'[t] = epOrig[t]]_vars

\* the running call of ensure_printer has returned a value to its caller
ReturnedNormally(t) == pc[t] = "ep_done" /\ epResult[t] \in OkResults

\* its first probe failed: what it returned, it returned after a recovery
Recovered(t) == epProbes[t] # <<>> /\ ProbeFailed(epProbes[t][1])

\* C37: when a call of ensure_printer returns a value after it recovered
\* from a fault, the sat cache is empty and the nonfiscal cache is the
\* reopened handle, which is the device manager's and was not closed
C37_CachesAfterRecovery ==
  \A t \in EpTasks :
    (ReturnedNormally(t) /\ Recovered(t))
      => /\ satUiPrinter = 0
         /\ nonfiscalUiPrinter = devPrinter
         /\ nonfiscalUiPrinter # 0
         /\ nonfiscalUiPrinter \notin closedHandles

\* a second recovery: the nonfiscal cache held the handle this call closed
C37_Witness ==
  \E t \in EpTasks :
    /\ ReturnedNormally(t)
    /\ Recovered(t)
    /\ Cardinality(closedHandles) = 2
    /\ nonfiscalUiPrinter - 1 \in closedHandles

\* C38: over any sequence of calls of ensure_printer, when a call returns
\* a value no plugin cache refers to a handle that was closed
C38_NoStaleCache ==
  \A t \in EpTasks :
    ReturnedNormally(t)
      => /\ satUiPrinter \notin closedHandles
         /\ nonfiscalUiPrinter \notin closedHandles

\* the tasks that take device locks
LockTasks == TefTasks \cup ReqTasks \cup PollTasks \cup DevTasks \cup DataTasks

\* the lock a task is about to take with a blocking acquisition
WaitsOn(t) ==
  CASE pc[t] = "lock_pinpad" -> "pinpad"
    [] pc[t] \in {"lock_printer", "print_lock"} -> "printer"
    [] pc[t] = "lock_sat" -> "sat"
    [] OTHER -> "none"

Holder(lock) ==
  CASE lock = "pinpad" -> pinpadLock
    [] lock = "printer" -> printerLock
    [] lock = "sat" -> satLock
    [] OTHER -> Free

\* the blocking acquisition steps of the module
Acquire(t) ==
  \/ TefResource_post_lock_pinpad(t)
  \/ TefResource_post_lock_printer(t)
  \/ TefResource_print_callback_lock(t)
  \/ Request_lock(t)
  \/ Request_lock_sat(t)
  \/ check_drawer_lock(t)
  \/ get_data_check_drawer(t)

\* C39: the device locks admit no deadlock: there is no set of tasks each
\* waiting for a lock that a task of the set holds (in particular no task
\* waits for a lock it holds itself), and a task waiting for a lock that is
\* free can take it
C39_NoLockDeadlock ==
  /\ \A S \in SUBSET LockTasks :
       S # {} => \E t \in S : WaitsOn(t) = "none" \/ Holder(WaitsOn(t)) \notin S
  /\ \A t \in LockTasks :
       (WaitsOn(t) # "none" /\ Holder(WaitsOn(t)) = Free) => ENABLED Acquire(t)

\* a chain of waits without a cycle: the operation holds the pinpad and
\* waits for the printer, which the sale holds while it waits for the SAT
\* lock, which the SAT poller holds
C39_Witness ==
  /\ pinpadLock = "tef1"
  /\ pc["tef1"] = "print_lock"
  /\ printerLock = "req"
  /\ pc["req"] = "lock_sat"
  /\ satLock = "sat"

\* C40: while a question callback is blocked waiting for its reply, the
\* TEF_ASK_QUESTION event is among the items put on the queue registered
\* for the station of the operation
C40_QuestionEnqueued ==
  \A t \in TefTasks :
    pc[t] = "wait_reply"
      => /\ waitingReply
         /\ streams[StationOf(t)] # 0
         /\ \E i \in DOMAIN enq[streams[StationOf(t)]] :
              enq[streams[StationOf(t)]][i] = EvQuestion

====
